---- MODULE Spec2Model ----
(***************************************************************************)
(* Gearbox revenue calculator: event-sourced pool-state reconstruction and *)
(* time-weighted accounting.                                               *)
(*                                                                         *)
(* Three specifications share this module, one per component:              *)
(*   SpecReplay  derivePoolSnapshotsFromEvents on every delivery order of  *)
(*               a chain's Deposit/Withdraw logs;                          *)
(*   SpecFetch   the sequential adaptive getPoolEvents loop with           *)
(*               withRetry around every getLogs request;                   *)
(*   SpecCalc    calculateGearboxRevenue: lookback loop, anchoring,        *)
(*               interval accounting, realized revenue, report.            *)
(* A specification leaves the variables of the other components at their   *)
(* idle values.                                                            *)
(*                                                                         *)
(* TLC integers are 32 bits wide, so SHARE_PRICE_SCALE is 10^3 here where  *)
(* the source has 10^12 (BigInt, unbounded); every formula is stated in    *)
(* terms of SHARE_PRICE_SCALE, never of its value.                         *)
(***************************************************************************)
EXTENDS Integers, Sequences, FiniteSets, TLC

VARIABLES
    chain,          \* logs emitted by the pool contract, in chain order
    replayInput,    \* `events` argument of derivePoolSnapshotsFromEvents
    replayResult    \* {snapshots, finalState} it returned, or NoResult

\* getPoolEvents (sequential adaptive fetch)
VARIABLES
    fetchFromBlock,     \* argument fromBlock
    fetchToBlock,       \* argument toBlock
    includeTransfers,   \* options.includeTransfers
    batchSize,
    currentFromBlock,
    fetchedEvents,      \* allEvents: Deposit/Withdraw logs pushed so far
    fetchedTransfers,   \* transferEvents: Transfer logs pushed so far
    attempt,            \* withRetry's attempt counter for the current request
    fetchPc,            \* "idle", "loop", "returned", "rejected"
    fetchResult,        \* the value returned, or the error thrown
    progressCallback,   \* options.progressCallback: NoCallback for null
    windows,            \* history: <<from, to>> of every successful getLogs
    providerInOrder     \* history: every response listed same-block logs by logIndex

\* calculateGearboxRevenue
VARIABLES
    fromBlock,                  \* dateToStartBlock(fromDate)
    toBlock,                    \* dateToEndBlock(toDate)
    treasuryAddressOverride,    \* options.treasuryAddressOverride, or NoAddress
    onChainTreasury,            \* what the pool's treasury() read yields
    daoShareOverride,           \* options.daoShareOverride: <<bps>>, or <<>> when not given
    interestFee,                \* sanitized.interestFee
    deployDate,                 \* argument deployDate as <<its start block>>, or <<>> for null
    revenueShareAddresses,      \* argument revenueShareAddresses, <<>> for null
    revenueShareCoeff,          \* argument revenueShareCoeff as <<ten-thousandths>>, <<>> for null
    deployBlock,
    automaticLookbackDays,
    allEvents,
    transferEventsAll,
    snapshots,
    anchorSnapshots,
    anchorTimestamps,
    treasuryAddress,
    intervalIndex,              \* iterations of the interval loop completed
    sharePriceDiff,             \* local of the last iteration
    intervalRevenue,            \* local of the last iteration
    totalRevenue,
    weightedTVLSum,
    totalTimeSum,
    negativeSharePriceIntervals,
    realizedSharesMinted,
    realizedRevenueRaw,
    balanceSnapshots,           \* checkpoint block -> (tracked address -> balance)
    addressesWeightedTVL,
    report,                     \* the result object returned, or NoResult
    calcError,                  \* the Error the call rejected with, or NoResult
    calcPc,                     \* position inside calculateGearboxRevenue
    ioCall,                     \* the RPC call withRetry last retried, or that failed
    ioAttempt,                  \* withRetry's attempt counter for that call
    rounds                      \* history: fetch+replay rounds completed

\* getPoolEvents (concurrent variant)
VARIABLES
    concFromBlock,          \* argument fromBlock
    concToBlock,            \* argument toBlock
    maxConcurrency,         \* options.maxConcurrency
    eventBuckets,           \* per range: Deposit/Withdraw logs pushed
    transferBuckets,        \* per range: Transfer logs pushed
    nextIndex,              \* next range to hand out (from 0)
    fallbackToSequential,
    workers,                \* per worker: [pc, current, attempt]
    concPc,                 \* "idle", "start", "run", "returned", "rejected"
    concResult,             \* the value returned, or the error thrown
    completions,            \* history: ranges (from 1) in the order they were stored
    concErrorSeen           \* history: some getLogs request has failed

\* main (index.js) up to the date conversion of calculateGearboxRevenue
VARIABLES
    argv,               \* the command line as parsed: pool address, dates, numbers
    runPc,              \* "idle", "main", "validate", "call", "blocks", "running",
                        \* "exited", "rejected"
    chainRequests,      \* history: chain requests issued so far
    runOutcome          \* what the run printed or rejected with, or NoResult

\* getAddressBalancesAtBlocksFromEvents
VARIABLES
    balAddresses,       \* argument addresses
    balTargetBlocks,    \* argument targetBlocks
    balTransferEvents,  \* options.transferEvents
    balEventIndex,      \* eventIndex: index (from 1) of the next transfer to replay
    balTargetIndex,     \* index (from 1) of the target block the for loop is at
    balBalances,        \* balances: the running Map address -> balance
    balanceMap,         \* `snapshots`: <<[blockNumber, balances]>> as set so far
    balPc               \* "idle", "entry", "loop", "returned"

\* getBlockTimestamp with the module's blockCache
VARIABLES
    blockCache,         \* Map cacheKey -> {data, timestamp}, as a set of entries
    now,                \* Date.now()
    cacheTtl,           \* argument CACHE_TTL
    timestampReturned   \* history: the calls so far, [blockNumber, data, cached]

\* withRetry
VARIABLES
    retryAttempt,       \* attempt
    delayMs,
    onRetry,            \* options.onRetry: "none", "logs" or "throws"
    fnCalls,            \* history: the outcome of every call of fn, "ok" or the error
    sleeps,             \* history: the waits so far, in ms
    retryPc             \* "idle", "calling", "resolved", "rejected"

\* dateToStartBlock / dateToEndBlock
VARIABLES
    searchDate,         \* [boundary |-> "start" or "end", day |-> days since epoch]
    blockTimes,         \* block.timestamp of blocks 0..latestBlock (index b + 1)
    low,
    high,
    probes,             \* history: getBlock requests of the search
    searchPc,           \* "idle", "search", "returned"
    searchResult        \* <<the block returned>>, or <<>>

replayVars == <<replayInput, replayResult>>
balVars == <<balAddresses, balTargetBlocks, balTransferEvents, balEventIndex,
             balTargetIndex, balBalances, balanceMap, balPc>>
cacheVars == <<blockCache, now, cacheTtl, timestampReturned>>
retryVars == <<retryAttempt, delayMs, onRetry, fnCalls, sleeps, retryPc>>
searchVars == <<searchDate, blockTimes, low, high, probes, searchPc, searchResult>>
auxVars == <<balVars, cacheVars, retryVars, searchVars>>
runVars == <<argv, runPc, chainRequests, runOutcome>>
concVars == <<concFromBlock, concToBlock, maxConcurrency, eventBuckets,
              transferBuckets, nextIndex, fallbackToSequential, workers, concPc,
              concResult, completions, concErrorSeen>>
calcInputs == <<fromBlock, toBlock, treasuryAddressOverride, onChainTreasury,
                daoShareOverride, interestFee, deployDate, revenueShareAddresses,
                revenueShareCoeff>>
calcFetched == <<deployBlock, automaticLookbackDays, allEvents, transferEventsAll,
                 snapshots, rounds>>
calcAnchors == <<anchorSnapshots, anchorTimestamps, treasuryAddress>>
calcTotals == <<intervalIndex, sharePriceDiff, intervalRevenue, totalRevenue, weightedTVLSum, totalTimeSum,
                negativeSharePriceIntervals>>
calcRealized == <<realizedSharesMinted, realizedRevenueRaw>>
calcShare == <<balanceSnapshots, addressesWeightedTVL>>
calcOutcome == <<report, calcError>>
calcIo == <<ioCall, ioAttempt>>
calcVars == <<calcInputs, calcFetched, calcAnchors, calcTotals, calcRealized,
              calcShare, calcOutcome, calcPc, calcIo>>
fetchVars == <<fetchFromBlock, fetchToBlock, includeTransfers, progressCallback, batchSize,
               currentFromBlock, fetchedEvents, fetchedTransfers, attempt,
               fetchPc, fetchResult, windows, providerInOrder>>
vars == <<chain, replayVars, fetchVars, calcVars, concVars, runVars, auxVars>>
mainVars == <<chain, replayVars, fetchVars, calcVars, concVars, runVars>>

\* ------------------------------------------------------------------ values

SHARE_PRICE_SCALE == 1000

ZERO_ADDRESS == "0x0"
TREASURY == "treasury"
NoResult == [none |-> TRUE]

\* options.progressCallback left at its default null. A supplied callback is
\* [supplied |-> TRUE, throws |-> the errors a call of it may throw].
NoCallback == [supplied |-> FALSE, throws |-> {}]

\* BigInt division truncates toward zero.
bigDiv(a, b) == IF a >= 0 THEN a \div b ELSE -((-a) \div b)

Max(a, b) == IF a >= b THEN a ELSE b
Min(a, b) == IF a <= b THEN a ELSE b
Abs(a) == IF a >= 0 THEN a ELSE -a

\* A decoded log as viem returns it (LogEvent); getPoolEvents adds `type`.
PoolLog(type, blockNumber, logIndex, tx, owner, assets, shares) ==
    [type |-> type, blockNumber |-> blockNumber, logIndex |-> logIndex,
     transactionHash |-> tx, owner |-> owner, assets |-> assets,
     shares |-> shares, from |-> "", to |-> "", value |-> 0]

TransferLog(blockNumber, logIndex, tx, from, to, value) ==
    [type |-> "Transfer", blockNumber |-> blockNumber, logIndex |-> logIndex,
     transactionHash |-> tx, owner |-> "", assets |-> 0, shares |-> 0,
     from |-> from, to |-> to, value |-> value]

IsPoolEvent(log) == log.type \in {"Deposit", "Withdraw"}

\* The sub-sequence of s whose elements satisfy Keep, in the order of s
\* (Array.prototype.filter).
RECURSIVE SelectLogs(_, _)
SelectLogs(s, keep) ==
    IF s = <<>> THEN <<>>
    ELSE IF Head(s) \in keep THEN <<Head(s)>> \o SelectLogs(Tail(s), keep)
         ELSE SelectLogs(Tail(s), keep)

Range(s) == {s[i] : i \in DOMAIN s}

\* ------------------------------------------------------------------ sorting

\* Array.prototype.sort is stable: elements the comparator calls equal keep
\* their input order.
\* c[i][j] is the comparator's value on (s[i], s[j]).
StableSort(s, c) ==
    LET n == Len(s)
        p == CHOOSE q \in Permutations(1..n) :
                \A i, j \in 1..n :
                    i < j => \/ c[q[i]][q[j]] < 0
                             \/ c[q[i]][q[j]] = 0 /\ q[i] < q[j]
    IN  [i \in 1..n |-> s[p[i]]]

\* Variant that leaves the fetched logs in arrival order.
compareNothing(a, b) == 0

\* (a, b) => Number(a.blockNumber) - Number(b.blockNumber)
compareBlockNumber(a, b) == a.blockNumber - b.blockNumber

\* Variant that ignores logIndex.
compareIgnoringLogIndex(a, b) == a.blockNumber - b.blockNumber

compareBlockAndIndex(a, b) ==
    LET blockDiff == a.blockNumber - b.blockNumber
    IN  IF blockDiff # 0 THEN blockDiff ELSE a.logIndex - b.logIndex

sortEventsByBlockAndIndex(events) ==
    StableSort(events, [i \in DOMAIN events |-> [j \in DOMAIN events |->
                           compareBlockAndIndex(events[i], events[j])]])

\* ------------------------------------------------------------------ replay

InitialPoolState == [totalSupply |-> 0, expectedLiquidity |-> 0, sharePrice |-> 0]

\* Variant without the clamp at zero supply.
withdrawSupplyUnclamped(totalSupply, shares) == totalSupply - shares

\* totalSupply = totalSupply > shares ? totalSupply - shares : 0n
withdrawSupply(totalSupply, shares) ==
    IF totalSupply > shares THEN totalSupply - shares ELSE 0

\* Variant that accepts a derived price of zero.
nextSharePriceAnyPrice(sharePrice, shares, priceFromEvent) ==
    IF shares > 0 THEN priceFromEvent ELSE sharePrice

\* if (shares > 0n && priceFromEvent > 0n) sharePrice = priceFromEvent
nextSharePrice(sharePrice, shares, priceFromEvent) ==
    IF shares > 0 /\ priceFromEvent > 0 THEN priceFromEvent ELSE sharePrice

\* Body of the replay loop: one event folded into the running state.
applyEvent(st, event) ==
    LET amount == event.assets
        shares == event.shares
        priceFromEvent == IF shares > 0
                          THEN bigDiv(amount * SHARE_PRICE_SCALE, shares)
                          ELSE st.sharePrice
        totalSupply == IF event.type = "Deposit" THEN st.totalSupply + shares
                       ELSE IF event.type = "Withdraw"
                            THEN withdrawSupply(st.totalSupply, shares)
                            ELSE st.totalSupply
        sharePrice == IF IsPoolEvent(event)
                      THEN nextSharePrice(st.sharePrice, shares, priceFromEvent)
                      ELSE st.sharePrice
        expectedLiquidity == IF sharePrice > 0 /\ totalSupply > 0
                             THEN bigDiv(sharePrice * totalSupply, SHARE_PRICE_SCALE)
                             ELSE 0
    IN  [totalSupply |-> totalSupply, expectedLiquidity |-> expectedLiquidity,
         sharePrice |-> sharePrice]

derivePoolSnapshotsFromEvents(events) ==
    LET sortedEvents == sortEventsByBlockAndIndex(events)
        n == Len(sortedEvents)
        st[i \in 0..n] == IF i = 0 THEN InitialPoolState
                          ELSE applyEvent(st[i - 1], sortedEvents[i])
    IN  [snapshots |-> [i \in 1..n |->
                          [blockNumber |-> sortedEvents[i].blockNumber,
                           totalSupply |-> st[i].totalSupply,
                           expectedLiquidity |-> st[i].expectedLiquidity,
                           sharePrice |-> st[i].sharePrice,
                           eventType |-> sortedEvents[i].type]],
         finalState |-> st[n]]

\* ------------------------------------------------------------------ chains

\* Keys <<blockNumber, logIndex>> in chain order.
KeyLess(k, l) == k[1] < l[1] \/ (k[1] = l[1] /\ k[2] < l[2])

RECURSIVE KeySeq(_)
KeySeq(K) ==
    IF K = {} THEN <<>>
    ELSE LET k == CHOOSE x \in K : \A y \in K \ {x} : KeyLess(x, y)
         IN  <<k>> \o KeySeq(K \ {k})

LogAt(k, shape) == [shape EXCEPT !.blockNumber = k[1], !.logIndex = k[2]]

\* Every chain of at most n logs over the keys: one log per chosen key, in
\* (blockNumber, logIndex) order, as the chain emits them.
Chains(keys, shapes, n) ==
    UNION { { LET ks == KeySeq(K) IN [i \in 1..Len(ks) |-> LogAt(ks[i], f[ks[i]])]
              : f \in [K -> shapes] }
            : K \in {S \in SUBSET keys : Cardinality(S) <= n} }

\* Every order in which the elements of s can be delivered.
Orders(s) == { [i \in 1..Len(s) |-> s[p[i]]] : p \in Permutations(1..Len(s)) }

\* ------------------------------------------------------------------ SpecReplay

MaxReplayLogs == 3

ReplayKeys == {<<100, 0>>, <<100, 1>>, <<200, 0>>, <<200, 1>>}

ReplayShapes ==
    { PoolLog("Deposit", 0, 0, "tx", "alice", 1000, 1000),
      PoolLog("Deposit", 0, 0, "tx", "alice", 900, 1000),
      PoolLog("Deposit", 0, 0, "tx", "alice", 500, 0),
      PoolLog("Withdraw", 0, 0, "tx", "alice", 440, 400),
      PoolLog("Withdraw", 0, 0, "tx", "alice", 3000, 2000),
      PoolLog("Withdraw", 0, 0, "tx", "alice", 0, 300) }

ReplayIdle == replayInput = <<>> /\ replayResult = NoResult

FetchIdle ==
    /\ fetchFromBlock = 0 /\ fetchToBlock = 0 /\ includeTransfers = FALSE
    /\ batchSize = 0 /\ currentFromBlock = 0
    /\ fetchedEvents = <<>> /\ fetchedTransfers = <<>>
    /\ attempt = 0 /\ fetchPc = "idle" /\ fetchResult = NoResult
    /\ windows = <<>> /\ providerInOrder = TRUE
    /\ progressCallback = NoCallback

BalIdle ==
    /\ balAddresses = <<>> /\ balTargetBlocks = <<>> /\ balTransferEvents = <<>>
    /\ balEventIndex = 0 /\ balTargetIndex = 0 /\ balBalances = <<>> /\ balanceMap = <<>>
    /\ balPc = "idle"

CacheIdle ==
    /\ blockCache = {} /\ now = 0 /\ cacheTtl = 0 /\ timestampReturned = <<>>

RetryIdle ==
    /\ retryAttempt = 0 /\ delayMs = 0 /\ onRetry = "none" /\ fnCalls = <<>>
    /\ sleeps = <<>> /\ retryPc = "idle"

SearchIdle ==
    /\ searchDate = NoResult /\ blockTimes = <<>> /\ low = 0 /\ high = 0
    /\ probes = <<>> /\ searchPc = "idle" /\ searchResult = <<>>

AuxIdle == BalIdle /\ CacheIdle /\ RetryIdle /\ SearchIdle

RunIdle ==
    /\ argv = NoResult /\ runPc = "idle" /\ chainRequests = <<>>
    /\ runOutcome = NoResult

ConcIdle ==
    /\ concFromBlock = 0 /\ concToBlock = 0 /\ maxConcurrency = 0
    /\ eventBuckets = <<>> /\ transferBuckets = <<>>
    /\ nextIndex = 0 /\ fallbackToSequential = FALSE
    /\ workers = <<>> /\ concPc = "idle" /\ concResult = NoResult
    /\ completions = <<>> /\ concErrorSeen = FALSE

CalcIdle ==
    /\ fromBlock = 0 /\ toBlock = 0
    /\ treasuryAddressOverride = "" /\ onChainTreasury = ""
    /\ daoShareOverride = <<>> /\ interestFee = 0 /\ deployDate = <<>>
    /\ revenueShareAddresses = <<>> /\ revenueShareCoeff = <<>>
    /\ balanceSnapshots = <<>> /\ addressesWeightedTVL = 0
    /\ deployBlock = 0 /\ automaticLookbackDays = 0
    /\ allEvents = <<>> /\ transferEventsAll = <<>> /\ snapshots = <<>>
    /\ anchorSnapshots = <<>> /\ anchorTimestamps = <<>> /\ treasuryAddress = ""
    /\ intervalIndex = 0 /\ sharePriceDiff = 0 /\ intervalRevenue = 0
    /\ totalRevenue = 0 /\ weightedTVLSum = 0
    /\ totalTimeSum = 0 /\ negativeSharePriceIntervals = 0
    /\ realizedSharesMinted = 0 /\ realizedRevenueRaw = 0
    /\ report = NoResult /\ calcError = NoResult
    /\ calcPc = "idle" /\ rounds = 0
    /\ ioCall = "" /\ ioAttempt = 0

InitReplay ==
    /\ FetchIdle
    /\ ConcIdle
    /\ RunIdle
    /\ AuxIdle
    /\ CalcIdle
    /\ chain \in Chains(ReplayKeys, ReplayShapes, MaxReplayLogs)
    /\ replayInput \in Orders(chain)
    /\ replayResult = NoResult

\* A caller passes the logs, in the order it holds them, to
\* derivePoolSnapshotsFromEvents.
DeriveSnapshots ==
    /\ replayResult = NoResult
    /\ replayResult' = derivePoolSnapshotsFromEvents(replayInput)
    /\ UNCHANGED <<chain, auxVars, runVars, concVars, replayInput, fetchVars, calcVars>>

NextReplay == DeriveSnapshots

SpecReplay == InitReplay /\ [][NextReplay]_vars

Replayed == replayResult # NoResult

\* Pool state before the i-th event of the chain, read off the result.
StateBefore(i) ==
    IF i = 1 THEN InitialPoolState
    ELSE [totalSupply |-> replayResult.snapshots[i - 1].totalSupply,
          expectedLiquidity |-> replayResult.snapshots[i - 1].expectedLiquidity,
          sharePrice |-> replayResult.snapshots[i - 1].sharePrice]

\* C1: whatever the order in which the logs of a chain (pairwise distinct
\* (blockNumber, logIndex)) are passed in, derivePoolSnapshotsFromEvents
\* returns the snapshots and finalState it returns for the chain order.
C1_ReplayOrderIndependent ==
    Replayed => replayResult = derivePoolSnapshotsFromEvents(chain)

C1_Witness ==
    /\ Replayed
    /\ replayInput # chain
    /\ \E i, j \in DOMAIN replayInput :
          /\ i < j
          /\ replayInput[i].blockNumber = replayInput[j].blockNumber
          /\ replayInput[i].logIndex > replayInput[j].logIndex
          /\ replayInput[i].shares # replayInput[j].shares

\* C2: every snapshot and the finalState have totalSupply >= 0, and a
\* Withdraw of more shares than the supply before it leaves totalSupply 0.
C2_SupplyNonNegative ==
    Replayed =>
      /\ replayResult.finalState.totalSupply >= 0
      /\ Len(replayResult.snapshots) = Len(chain)
      /\ \A i \in DOMAIN replayResult.snapshots :
            /\ replayResult.snapshots[i].totalSupply >= 0
            /\ (chain[i].type = "Withdraw"
                 /\ chain[i].shares > StateBefore(i).totalSupply)
               => replayResult.snapshots[i].totalSupply = 0

C2_Witness ==
    /\ Replayed
    /\ \E i \in DOMAIN replayResult.snapshots :
          /\ chain[i].type = "Withdraw"
          /\ StateBefore(i).totalSupply > 0
          /\ chain[i].shares > StateBefore(i).totalSupply
          /\ replayResult.snapshots[i].totalSupply = 0

\* C3: an event with shares = 0 leaves sharePrice and totalSupply as the
\* preceding snapshot has them, whatever its assets; sharePrice changes only
\* on an event with shares > 0 whose derived price assets*SCALE/shares is > 0.
C3_PriceCarryForward ==
    Replayed =>
      \A i \in DOMAIN replayResult.snapshots :
        /\ chain[i].shares = 0 =>
              /\ replayResult.snapshots[i].sharePrice = StateBefore(i).sharePrice
              /\ replayResult.snapshots[i].totalSupply = StateBefore(i).totalSupply
        /\ replayResult.snapshots[i].sharePrice # StateBefore(i).sharePrice =>
              /\ chain[i].shares > 0
              /\ (chain[i].assets * SHARE_PRICE_SCALE) \div chain[i].shares > 0

C3_Witness ==
    /\ Replayed
    /\ \E i \in DOMAIN replayResult.snapshots :
          /\ chain[i].shares = 0
          /\ chain[i].assets > 0
          /\ StateBefore(i).sharePrice > 0
          /\ StateBefore(i).totalSupply > 0
          /\ replayResult.snapshots[i].sharePrice = StateBefore(i).sharePrice

\* ------------------------------------------------------------------ RPC errors

\* An error thrown by the transport: `fragments` are the known message
\* fragments that normaliseErrorMessage(error) contains, `code` is
\* String(error.code).toLowerCase().
RpcError(message, fragments, code) ==
    [message |-> message, fragments |-> fragments, code |-> code]

RETRYABLE_ERROR_CODES ==
    {"etimedout", "ecconnreset", "econnrefused", "eaddrinuse", "enotfound", "eai_again"}

RETRYABLE_MESSAGE_FRAGMENTS ==
    {"429", "rate limit", "too many requests", "limit exceeded",
     "temporarily unavailable", "timeout", "timed out", "try again later",
     "gateway timeout", "server error", "socket hang up"}

BLOCK_RANGE_LIMIT_FRAGMENTS ==
    {"block range", "too high", "too wide", "max range",
     "query returned more than", "exceeds the maximum", "is greater than the limit"}

HISTORICAL_DATA_FRAGMENTS ==
    {"returned no data", "header not found", "missing trie node", "unknown block",
     "no state available", "does not have the function", "not an archive node",
     "only supports latest", "state is not available"}

\* error.shortMessage || error.message || error.code || ''
normaliseErrorMessage(error) ==
    IF error.message # "" THEN error.message ELSE error.code

isRetriableError(error) ==
    /\ normaliseErrorMessage(error) # ""
    /\ \/ error.fragments \cap RETRYABLE_MESSAGE_FRAGMENTS # {}
       \/ error.code \in RETRYABLE_ERROR_CODES

isBlockRangeLimitError(error) ==
    /\ normaliseErrorMessage(error) # ""
    /\ error.fragments \cap BLOCK_RANGE_LIMIT_FRAGMENTS # {}

isHistoricalDataUnavailable(error) ==
    /\ normaliseErrorMessage(error) # ""
    /\ error.fragments \cap HISTORICAL_DATA_FRAGMENTS # {}

\* ------------------------------------------------------------------ withRetry

maxRetries == 4

\* Variant that gives up one attempt earlier.
withRetryRethrowsEarlier(error, n) == n >= maxRetries - 1 \/ ~isRetriableError(error)

\* Variant that never asks shouldRetry.
withRetryRethrowsOnBudgetOnly(error, n) == n >= maxRetries

\* withRetry rethrows instead of retrying:
\* attempt >= maxRetries || (shouldRetry && !shouldRetry(error, attempt))
withRetryRethrows(error, n) == n >= maxRetries \/ ~isRetriableError(error)

\* ------------------------------------------------------------------ getPoolEvents

DEFAULT_MAX_BLOCK_RANGE == 100000
MIN_BLOCK_RANGE == 2000

\* Variant that does not clip the window at toBlock.
batchToBlockUnclipped(from, size, to) == from + size - 1

\* const batchToBlock = Math.min(currentFromBlock + batchSize - 1, toBlock)
batchToBlock(from, size, to) == Min(from + size - 1, to)

\* Variant that leaves the batch size as it is.
reducedBatchSizeUnchanged(size) == size

\* Variant without the floor at MIN_BLOCK_RANGE.
reducedBatchSizeNoFloor(size) == size \div 2

\* batchSize = Math.max(MIN_BLOCK_RANGE, Math.floor(batchSize / 2))
reducedBatchSize(size) == Max(MIN_BLOCK_RANGE, size \div 2)

\* Variant that ignores the toBlock of the request.
LogsFromBlock(from, to, types) ==
    SelectLogs(chain, {l \in Range(chain) : l.blockNumber >= from /\ l.type \in types})

\* The logs an honest provider holds for getLogs({events, fromBlock, toBlock}),
\* in chain order.
LogsInWindow(from, to, types) ==
    SelectLogs(chain, {l \in Range(chain) :
                         l.blockNumber >= from /\ l.blockNumber <= to /\ l.type \in types})

\* Logs of one block appear in s by increasing logIndex.
SameBlockInOrder(s) ==
    \A i, j \in DOMAIN s :
        (i < j /\ s[i].blockNumber = s[j].blockNumber) => s[i].logIndex < s[j].logIndex

\* allEvents.sort((a, b) => Number(a.blockNumber) - Number(b.blockNumber))
sortByBlockNumber(events) ==
    StableSort(events, [i \in DOMAIN events |-> [j \in DOMAIN events |->
                           compareBlockNumber(events[i], events[j])]])

\* Lines 114-121: the value getPoolEvents returns once the loop has ended.
fetchReturnValue(events, transfers, withTransfers) ==
    IF withTransfers
    THEN [events |-> sortByBlockNumber(events),
          transferEvents |-> sortByBlockNumber(transfers)]
    ELSE [events |-> sortByBlockNumber(events)]

\* A getLogs request for the current window succeeds; its logs arrive in any
\* order `response`. The loop pushes them, the progress callback (if one is
\* supplied) returns, the loop advances to the next window and, when the
\* range is exhausted, sorts and returns.
GetLogsSucceeds ==
    /\ fetchPc = "loop"
    /\ currentFromBlock <= fetchToBlock
    /\ LET to == batchToBlock(currentFromBlock, batchSize, fetchToBlock)
           eventsToFetch == IF includeTransfers
                            THEN {"Deposit", "Withdraw", "Transfer"}
                            ELSE {"Deposit", "Withdraw"}
           held == LogsInWindow(currentFromBlock, to, eventsToFetch)
       IN \E response \in Orders(held) :
            LET events == fetchedEvents \o
                            SelectLogs(response, {l \in Range(response) : IsPoolEvent(l)})
                transfers == fetchedTransfers \o
                            SelectLogs(response, {l \in Range(response) :
                                                    includeTransfers /\ l.type = "Transfer"})
            IN /\ fetchedEvents' = events
               /\ fetchedTransfers' = transfers
               /\ windows' = Append(windows, <<currentFromBlock, to>>)
               /\ providerInOrder' = (providerInOrder /\ SameBlockInOrder(response))
               /\ currentFromBlock' = to + 1
               /\ attempt' = 0
               /\ IF to + 1 <= fetchToBlock
                  THEN /\ fetchPc' = "loop"
                       /\ fetchResult' = fetchResult
                  ELSE /\ fetchPc' = "returned"
                       /\ fetchResult' = fetchReturnValue(events, transfers, includeTransfers)
    /\ UNCHANGED <<chain, auxVars, runVars, concVars, replayVars, calcVars, progressCallback, fetchFromBlock, fetchToBlock,
                   includeTransfers, batchSize>>

\* A getLogs request fails with a retriable error and withRetry has budget
\* left: it sleeps and calls getLogs again.
GetLogsRetried(error) ==
    /\ fetchPc = "loop"
    /\ currentFromBlock <= fetchToBlock
    /\ ~withRetryRethrows(error, attempt)
    /\ attempt' = attempt + 1
    /\ UNCHANGED <<chain, auxVars, runVars, concVars, replayVars, calcVars, progressCallback, fetchFromBlock, fetchToBlock,
                   includeTransfers, batchSize, currentFromBlock, fetchedEvents,
                   fetchedTransfers, fetchPc, fetchResult, windows, providerInOrder>>

\* withRetry rethrows a range-limit error while the batch can still shrink:
\* the catch block halves the batch size and the loop retries the window.
GetLogsRangeLimited(error) ==
    /\ fetchPc = "loop"
    /\ currentFromBlock <= fetchToBlock
    /\ withRetryRethrows(error, attempt)
    /\ isBlockRangeLimitError(error) /\ batchSize > MIN_BLOCK_RANGE
    /\ batchSize' = reducedBatchSize(batchSize)
    /\ attempt' = 0
    /\ UNCHANGED <<chain, auxVars, runVars, concVars, replayVars, calcVars, progressCallback, fetchFromBlock, fetchToBlock,
                   includeTransfers, currentFromBlock, fetchedEvents,
                   fetchedTransfers, fetchPc, fetchResult, windows, providerInOrder>>

\* withRetry rethrows any other error: getPoolEvents rejects with it.
GetLogsRejected(error) ==
    /\ fetchPc = "loop"
    /\ currentFromBlock <= fetchToBlock
    /\ withRetryRethrows(error, attempt)
    /\ ~(isBlockRangeLimitError(error) /\ batchSize > MIN_BLOCK_RANGE)
    /\ fetchPc' = "rejected"
    /\ fetchResult' = [error |-> error]
    /\ UNCHANGED <<chain, auxVars, runVars, concVars, replayVars, calcVars, progressCallback, fetchFromBlock, fetchToBlock,
                   includeTransfers, batchSize, currentFromBlock, fetchedEvents,
                   fetchedTransfers, attempt, windows, providerInOrder>>

\* Called with fromBlock > toBlock: the loop body never runs.
ReturnEmptyRange ==
    /\ fetchPc = "loop"
    /\ currentFromBlock > fetchToBlock
    /\ fetchPc' = "returned"
    /\ fetchResult' = fetchReturnValue(fetchedEvents, fetchedTransfers, includeTransfers)
    /\ UNCHANGED <<chain, auxVars, runVars, concVars, replayVars, calcVars, progressCallback, fetchFromBlock, fetchToBlock,
                   includeTransfers, batchSize, currentFromBlock, fetchedEvents,
                   fetchedTransfers, attempt, windows, providerInOrder>>

\* The callbacks considered throw only in their first MaxThrowingCalls calls
\* (the callback is called once per successful getLogs request).
MaxThrowingCalls == 1

\* Lines 86-95 inside the try block: the getLogs request succeeded and its
\* logs were pushed, then the supplied progressCallback throws `error`. The
\* catch block of lines 102-111 treats it like a request failure: it halves
\* the batch and repeats the window when the error reads as a range limit,
\* and rejects with the error otherwise.
ProgressCallbackThrows(error) ==
    /\ fetchPc = "loop"
    /\ currentFromBlock <= fetchToBlock
    /\ progressCallback.supplied
    /\ error \in progressCallback.throws
    /\ Len(windows) < MaxThrowingCalls
    /\ LET to == batchToBlock(currentFromBlock, batchSize, fetchToBlock)
           eventsToFetch == IF includeTransfers
                            THEN {"Deposit", "Withdraw", "Transfer"}
                            ELSE {"Deposit", "Withdraw"}
           held == LogsInWindow(currentFromBlock, to, eventsToFetch)
       IN \E response \in Orders(held) :
            /\ fetchedEvents' = fetchedEvents \o
                    SelectLogs(response, {l \in Range(response) : IsPoolEvent(l)})
            /\ fetchedTransfers' = fetchedTransfers \o
                    SelectLogs(response, {l \in Range(response) :
                                            includeTransfers /\ l.type = "Transfer"})
            /\ windows' = Append(windows, <<currentFromBlock, to>>)
            /\ providerInOrder' = (providerInOrder /\ SameBlockInOrder(response))
    /\ attempt' = 0
    /\ IF isBlockRangeLimitError(error) /\ batchSize > MIN_BLOCK_RANGE
       THEN /\ batchSize' = reducedBatchSize(batchSize)
            /\ UNCHANGED <<fetchPc, fetchResult>>
       ELSE /\ fetchPc' = "rejected"
            /\ fetchResult' = [error |-> error]
            /\ UNCHANGED batchSize
    /\ UNCHANGED <<chain, auxVars, runVars, concVars, replayVars, calcVars, progressCallback,
                   fetchFromBlock, fetchToBlock, includeTransfers, currentFromBlock>>

\* ------------------------------------------------------------------ SpecFetch

MaxFetchLogs == 3

FetchUniverse ==
    { PoolLog("Deposit", 999, 0, "t0", "alice", 10, 10),
      PoolLog("Deposit", 1000, 0, "t1", "alice", 10, 10),
      PoolLog("Withdraw", 3000, 0, "t2", "alice", 4, 4),
      PoolLog("Deposit", 3000, 1, "t2", "bob", 6, 6),
      TransferLog(3000, 2, "t2", ZERO_ADDRESS, "bob", 6),
      TransferLog(3000, 3, "t3", "bob", "alice", 1),
      PoolLog("Withdraw", 7250, 0, "t4", "bob", 5, 5),
      PoolLog("Deposit", 9001, 0, "t5", "alice", 10, 10) }

FetchChains ==
    { LET ks == KeySeq({<<l.blockNumber, l.logIndex>> : l \in L})
      IN  [i \in 1..Len(ks) |->
             CHOOSE l \in L : l.blockNumber = ks[i][1] /\ l.logIndex = ks[i][2]]
      : L \in {S \in SUBSET FetchUniverse : Cardinality(S) <= MaxFetchLogs} }

FetchToBlocks == {999, 1000, 3000, 9000}

FetchErrors ==
    { RpcError("rate limit", {"rate limit"}, ""),
      RpcError("block range too wide", {"block range", "too wide"}, ""),
      RpcError("block range limit exceeded", {"block range", "limit exceeded"}, ""),
      RpcError("execution reverted", {}, ""),
      RpcError("read econnreset", {}, "econnreset") }

InitFetch ==
    /\ ReplayIdle
    /\ ConcIdle
    /\ RunIdle
    /\ AuxIdle
    /\ CalcIdle
    /\ chain \in FetchChains
    /\ fetchFromBlock = 1000
    /\ fetchToBlock \in FetchToBlocks
    /\ includeTransfers \in BOOLEAN
    /\ progressCallback = NoCallback
    /\ batchSize = DEFAULT_MAX_BLOCK_RANGE
    /\ currentFromBlock = fetchFromBlock
    /\ fetchedEvents = <<>> /\ fetchedTransfers = <<>>
    /\ attempt = 0
    /\ fetchPc = "loop"
    /\ fetchResult = NoResult
    /\ windows = <<>>
    /\ providerInOrder = TRUE

NextFetch ==
    \/ GetLogsSucceeds
    \/ \E error \in FetchErrors : GetLogsRetried(error)
    \/ \E error \in FetchErrors : GetLogsRangeLimited(error)
    \/ \E error \in FetchErrors : GetLogsRejected(error)
    \/ ReturnEmptyRange

SpecFetch == InitFetch /\ [][NextFetch]_vars

FetchReturned == fetchPc = "returned"

PoolTypes == {"Deposit", "Withdraw"}

\* s holds exactly the elements of t, each once.
SameLogsOnce(s, t) == Len(s) = Len(t) /\ Range(s) = Range(t)

WindowsHolding(b) == {i \in DOMAIN windows : windows[i][1] <= b /\ b <= windows[i][2]}

\* C4: when the sequential fetch returns, the windows of its successful
\* getLogs requests partition [fromBlock, toBlock] (consecutive, non-empty,
\* from fromBlock to toBlock; every block that carries a log and both ends lie
\* in exactly one window), and the result holds every matching log of the
\* range exactly once.
C4_WindowsPartitionRange ==
    FetchReturned =>
      /\ fetchFromBlock > fetchToBlock => windows = <<>>
      /\ fetchFromBlock <= fetchToBlock =>
            /\ windows # <<>>
            /\ windows[1][1] = fetchFromBlock
            /\ windows[Len(windows)][2] = fetchToBlock
      /\ \A i \in DOMAIN windows : windows[i][1] <= windows[i][2]
      /\ \A i \in 1..(Len(windows) - 1) : windows[i + 1][1] = windows[i][2] + 1
      /\ \A b \in {l.blockNumber : l \in Range(chain)} \cup {fetchFromBlock, fetchToBlock} :
            Cardinality(WindowsHolding(b)) =
               (IF fetchFromBlock <= b /\ b <= fetchToBlock THEN 1 ELSE 0)
      /\ SameLogsOnce(fetchResult.events,
                      LogsInWindow(fetchFromBlock, fetchToBlock, PoolTypes))
      /\ includeTransfers =>
            SameLogsOnce(fetchResult.transferEvents,
                         LogsInWindow(fetchFromBlock, fetchToBlock, {"Transfer"}))

C4_Witness ==
    /\ FetchReturned
    /\ batchSize = MIN_BLOCK_RANGE
    /\ Len(windows) >= 4
    /\ Len(fetchResult.events) >= 2
    /\ \E l \in Range(chain) : l.blockNumber > fetchToBlock

IsSortedByKey(s) ==
    \A i, j \in DOMAIN s : i < j => ~KeyLess(<<s[j].blockNumber, s[j].logIndex>>,
                                             <<s[i].blockNumber, s[i].logIndex>>)

IsSortedByBlock(s) ==
    \A i, j \in DOMAIN s : i < j => s[i].blockNumber <= s[j].blockNumber

\* C5 as claimed: the returned events (and transferEvents) are ordered
\* non-decreasingly by (blockNumber, logIndex), whatever the order of the
\* logs inside one getLogs response.
C5_SortedByBlockAndIndex ==
    FetchReturned =>
      /\ IsSortedByKey(fetchResult.events)
      /\ includeTransfers => IsSortedByKey(fetchResult.transferEvents)

\* C5 amended: the returned events (and transferEvents) are ordered
\* non-decreasingly by blockNumber, whatever the order of the logs inside one
\* getLogs response; logs of one block keep their arrival order, so the
\* lists are ordered by (blockNumber, logIndex) when every response lists the
\* logs of one block by increasing logIndex.
C5_SortedByBlock ==
    FetchReturned =>
      /\ IsSortedByBlock(fetchResult.events)
      /\ includeTransfers => IsSortedByBlock(fetchResult.transferEvents)
      /\ providerInOrder =>
            /\ IsSortedByKey(fetchResult.events)
            /\ includeTransfers => IsSortedByKey(fetchResult.transferEvents)

C5_Witness ==
    /\ FetchReturned
    /\ ~providerInOrder
    /\ Len(windows) = 1
    /\ ~IsSortedByBlock(fetchedEvents)
    /\ IsSortedByBlock(fetchResult.events)
    /\ ~IsSortedByKey(fetchResult.events)

\* ------------------------------------------------------------------ calculateGearboxRevenue

APPROX_BLOCKS_PER_DAY == 7200
DEFAULT_LOOKBACK_DAYS == 365
\* Variant with a cap of ten years.
MAX_LOOKBACK_DAYS_TEN_YEARS == DEFAULT_LOOKBACK_DAYS * 10

MAX_LOOKBACK_DAYS == DEFAULT_LOOKBACK_DAYS * 5

NoAddress == "none"
Unreadable == "unreadable"

NoDate == <<>>

\* sanitizeInputParameters(poolAddress, fromDate, toDate, interestFee) has
\* four parameters and returns {poolAddress, fromDate, toDate, interestFee}:
\* the deployDate passed as fifth argument is dropped and
\* sanitized.deployDate is undefined.
sanitizedDeployDate(date) == NoDate

\* const effectiveDeployDate = sanitized.deployDate || null
effectiveDeployDate == sanitizedDeployDate(deployDate)

\* block.timestamp as the chain reports it: strictly increasing in the block
\* number.
BlockTimestamp(b) == 10 * b

\* What getPoolEvents(pool, from, to, client, {includeTransfers: true})
\* resolves to when no request fails: the windows partition [from, to].
poolEventsFetched(from, to) ==
    fetchReturnValue(LogsInWindow(from, to, {"Deposit", "Withdraw"}),
                     LogsInWindow(from, to, {"Transfer"}), TRUE)

\* Errors thrown inside calculateGearboxRevenue: `format` are the fragments
\* of the message that formatErrorMessage looks for.
CalcFailure(message, format) == [message |-> message, format |-> format]

NO_EVENTS == CalcFailure("No deposit/withdraw events found to build pool state.", {})
NOT_ENOUGH_EVENTS ==
    CalcFailure("Not enough events to compute revenue within the requested period.", {})
DAO_SHARE_REQUIRED == CalcFailure("DAO share (--dao-share-bps) is required", {})
TREASURY_ZERO ==
    CalcFailure("Unable to fetch treasury address from pool contract. Provide --treasury override. (pool treasury() returned zero address)", {})
TREASURY_UNREADABLE ==
    CalcFailure("Unable to fetch treasury address from pool contract. Provide --treasury override. (execution reverted)", {"execution reverted"})

\* Errors of the transport that reach the catch block of the call.
\* `fragments` and `code` classify them as RpcError does.
TransportFailure(message, format, fragments) ==
    [message |-> message, format |-> format, fragments |-> fragments, code |-> ""]

TransportFailures ==
    { TransportFailure("HTTP request failed: rate limit", {}, {"rate limit"}),
      TransportFailure("network error", {"network"}, {}),
      TransportFailure("header not found: unknown block", {"block"},
                       {"header not found", "unknown block"}),
      TransportFailure("block range too wide", {"block"}, {"block range", "too wide"}) }

formatErrorMessage(error) ==
    IF "execution reverted" \in error.format
    THEN "Contract call failed. The pool address might be invalid or the contract might not be deployed."
    ELSE IF "network" \in error.format
    THEN "Network error. Please check your internet connection and RPC endpoint."
    ELSE IF "block" \in error.format
    THEN "Block not found. The specified date range might be too old or in the future."
    ELSE IF "price" \in error.format
    THEN "Price oracle error. Unable to fetch token price data."
    ELSE IF error.message # "" THEN error.message ELSE "Unknown error occurred"

\* catch (error) { throw new Error(formatErrorMessage(error)) }
Rejection(error) == [message |-> formatErrorMessage(error), cause |-> error]

\* Variant that accepts non-zero supply in any snapshot before fromBlock.
anySupplyBeforePeriod(snaps, from) ==
    \E i \in DOMAIN snaps : snaps[i].blockNumber < from /\ snaps[i].totalSupply > 0

\* [...snapshots].reverse().find(s => s.blockNumber < fromBlock), then
\* stateBeforePeriod ? stateBeforePeriod.totalSupply > 0n : false
hasSupplyBeforePeriod(snaps, from) ==
    LET before == {i \in DOMAIN snaps : snaps[i].blockNumber < from}
    IN  IF before = {} THEN FALSE
        ELSE LET last == CHOOSE i \in before : \A j \in before : j <= i
             IN  snaps[last].totalSupply > 0

\* Variant that forgets Math.abs.
blockDistanceSigned(blockNumber, targetBlock) == blockNumber - targetBlock

\* Math.abs(Number(snapshots[i].blockNumber) - targetBlock)
blockDistance(blockNumber, targetBlock) == Abs(blockNumber - targetBlock)

\* Variant that moves to a later snapshot on equal distance.
findNearestSnapshotIndexLastOnTies(snaps, targetBlock) ==
    LET best[i \in 1..Len(snaps)] ==
          IF i = 1 THEN 1
          ELSE IF blockDistance(snaps[i].blockNumber, targetBlock)
                    <= blockDistance(snaps[best[i - 1]].blockNumber, targetBlock)
               THEN i ELSE best[i - 1]
    IN  best[Len(snaps)]

\* Index (from 1) of the snapshot nearest to targetBlock; the scan replaces
\* the best index only on a strictly smaller distance.
findNearestSnapshotIndex(snaps, targetBlock) ==
    LET best[i \in 1..Len(snaps)] ==
          IF i = 1 THEN 1
          ELSE IF blockDistance(snaps[i].blockNumber, targetBlock)
                    < blockDistance(snaps[best[i - 1]].blockNumber, targetBlock)
               THEN i ELSE best[i - 1]
    IN  best[Len(snaps)]

\* startIdx, endIdx after the swap, and snapshots.slice(startIdx, endIdx + 1)
anchorWindow(snaps, from, to) ==
    LET s == findNearestSnapshotIndex(snaps, from)
        e == findNearestSnapshotIndex(snaps, to)
        startIdx == IF s > e THEN e ELSE s
        endIdx == IF s > e THEN s ELSE e
    IN  SubSeq(snaps, startIdx, endIdx)

\* Variant that rounds the quotient down (floor) where BigInt truncates.
revenueFloorDivision(current, next) ==
    (current.totalSupply * (next.sharePrice - current.sharePrice)) \div SHARE_PRICE_SCALE

\* Variant that weighs the price change with the supply after the event.
revenueWithNextSupply(current, next) ==
    bigDiv(next.totalSupply * (next.sharePrice - current.sharePrice), SHARE_PRICE_SCALE)

\* (current.totalSupply * sharePriceDiff) / SCALE
revenueOverInterval(current, next) ==
    bigDiv(current.totalSupply * (next.sharePrice - current.sharePrice), SHARE_PRICE_SCALE)

\* Variant that takes any Deposit of the transaction.
isTreasuryDepositAnyOwner(event, treasury) ==
    event.type = "Deposit" /\ event.assets > 0

\* event.type === 'Deposit' && owner === treasuryAddress && assets > 0n
isTreasuryDeposit(event, treasury) ==
    event.type = "Deposit" /\ event.owner = treasury /\ event.assets > 0

treasuryDepositTxs(events, treasury) ==
    {e.transactionHash : e \in {x \in Range(events) : isTreasuryDeposit(x, treasury)}}

\* Sum of value over the treasury mints of `transfers` whose transaction is
\* not in `excluded`, in loop order.
RECURSIVE mintedShares(_, _, _)
mintedShares(transfers, treasury, excluded) ==
    IF transfers = <<>> THEN 0
    ELSE LET event == Head(transfers)
             counted == /\ event.from = ZERO_ADDRESS
                        /\ event.to = treasury
                        /\ event.transactionHash \notin excluded
         IN  (IF counted THEN event.value ELSE 0)
               + mintedShares(Tail(transfers), treasury, excluded)

\* BigInt(Math.floor((bps / 10000) * 10000)) in IEEE-754 doubles: the round
\* trip loses one for some inputs (3 -> 2, 6 -> 5, 12 -> 11, ...).
scaledBps(bps) ==
    IF bps \in {3, 6, 12, 24, 29, 48, 58, 93, 96, 113} THEN bps - 1 ELSE bps

TREASURY_UNAVAILABLE ==
    CalcFailure("Treasury address unavailable. Provide --treasury override.", {})

\* Variant without the zero-address test on what treasury() returns.
resolveTreasuryAcceptsZero(override, onChain) ==
    IF override # NoAddress
    THEN IF override = ZERO_ADDRESS
         THEN [error |-> TREASURY_UNAVAILABLE]
         ELSE [address |-> override]
    ELSE IF onChain = Unreadable THEN [error |-> TREASURY_UNREADABLE]
    ELSE [address |-> onChain]

\* Lines 297-317: the treasury address the call goes on with, or the error
\* it throws.
resolveTreasury(override, onChain) ==
    IF override # NoAddress
    THEN IF override = ZERO_ADDRESS
         THEN [error |-> TREASURY_UNAVAILABLE]
         ELSE [address |-> override]
    ELSE IF onChain = Unreadable THEN [error |-> TREASURY_UNREADABLE]
    ELSE IF onChain = ZERO_ADDRESS THEN [error |-> TREASURY_ZERO]
    ELSE [address |-> onChain]

\* automaticLookbackDays = DEFAULT_LOOKBACK_DAYS;
\* deployBlock = Math.max(0, fromBlock - lookbackBlocks)
initialDeployBlock(from) == Max(0, from - DEFAULT_LOOKBACK_DAYS * APPROX_BLOCKS_PER_DAY)

\* Lines 129-142: deployBlock and automaticLookbackDays before the loop.
\* With a deploy date: dateToStartBlock(effectiveDeployDate), clamped to
\* fromBlock, and automaticLookbackDays stays null (0 here).
deployBlockAtEntry(effective, from) ==
    IF effective # NoDate THEN Min(effective[1], from) ELSE initialDeployBlock(from)

lookbackDaysAtEntry(effective) ==
    IF effective # NoDate THEN 0 ELSE DEFAULT_LOOKBACK_DAYS

\* ------------------------------------------------------------------ SpecCalc

MaxCalcLogs == 4

\* A pool that is active around blocks 50..300, requested for 100..200, or
\* for dates past its latest block 300 (both dates resolve to block 300).
NearUniverse ==
    << PoolLog("Deposit", 50, 0, "a", "alice", 1000, 1000),
       PoolLog("Deposit", 100, 0, "b", "alice", 1000, 1000),
       TransferLog(100, 1, "b", ZERO_ADDRESS, "alice", 1000),
       PoolLog("Deposit", 150, 0, "d", "bob", 900, 1000),
       PoolLog("Withdraw", 150, 1, "e", "alice", 3000, 2000),
       TransferLog(150, 2, "m", ZERO_ADDRESS, TREASURY, 500),
       PoolLog("Deposit", 150, 3, "m", TREASURY, 550, 500),
       PoolLog("Deposit", 150, 3, "m", TREASURY, 0, 0),
       TransferLog(150, 4, "i", ZERO_ADDRESS, TREASURY, 70),
       PoolLog("Deposit", 150, 5, "i", "alice", 70, 70),
       TransferLog(150, 6, "k", ZERO_ADDRESS, TREASURY, 5),
       PoolLog("Withdraw", 200, 0, "c", "alice", 440, 400),
       PoolLog("Deposit", 200, 2, "j", "alice", 1100, 1000),
       TransferLog(300, 0, "g", ZERO_ADDRESS, TREASURY, 30),
       PoolLog("Deposit", 300, 1, "h", "alice", 1000, 1000) >>

\* A pool with years of history, requested late (blocks 14.0M..14.1M) or
\* early (3.0M..3.1M): the lookback window has to grow.
FarUniverse ==
    << PoolLog("Deposit", 100000, 0, "f0", "alice", 2, 2),
       PoolLog("Deposit", 500000, 0, "f1", "alice", 2, 2),
       PoolLog("Deposit", 1000000, 0, "f2", "alice", 2, 2),
       PoolLog("Deposit", 3050000, 0, "f9", "bob", 3, 3),
       PoolLog("Withdraw", 3100000, 0, "f10", "bob", 2, 3),
       PoolLog("Deposit", 9000000, 0, "f3", "alice", 2, 2),
       PoolLog("Deposit", 12000000, 0, "f4", "alice", 2, 2),
       PoolLog("Withdraw", 13000000, 0, "f5", "alice", 9, 9),
       PoolLog("Deposit", 14050000, 0, "f6", "bob", 3, 3),
       TransferLog(14060000, 0, "f8", ZERO_ADDRESS, TREASURY, 1),
       PoolLog("Withdraw", 14100000, 0, "f7", "bob", 2, 3) >>

\* At most n logs of `universe`, in chain order, no two at one position of
\* the chain.
SubChains(universe, n) ==
    { SelectLogs(universe, {universe[i] : i \in S}) :
        S \in { T \in SUBSET DOMAIN universe :
                  /\ Cardinality(T) <= n
                  /\ \A i, j \in T : i # j =>
                        <<universe[i].blockNumber, universe[i].logIndex>>
                          # <<universe[j].blockNumber, universe[j].logIndex>> } }

\* <<treasuryAddressOverride, what treasury() yields, daoShareOverride>>
NearOptions ==
    { <<TREASURY, TREASURY, <<5000>> >>, <<NoAddress, TREASURY, <<5000>> >>,
      <<NoAddress, ZERO_ADDRESS, <<5000>> >>, <<NoAddress, Unreadable, <<5000>> >>,
      <<ZERO_ADDRESS, TREASURY, <<5000>> >>, <<TREASURY, TREASURY, <<>> >> }

MaxDeployDateLogs == 2

\* Requests that name a deploy date: <<fromBlock, toBlock, chain, deployDate>>
DeployDateRequests ==
    ({100} \X {200} \X SubChains(NearUniverse, MaxDeployDateLogs) \X {<<60>>, <<150>>})
      \cup ({14000000} \X {14100000} \X SubChains(FarUniverse, MaxDeployDateLogs)
              \X {<<13500000>>})

MaxShareLogs == 5

\* A pool whose LP token moves between holders: carol holds shares from
\* before the requested period 100..200.
ShareUniverse ==
    << PoolLog("Deposit", 60, 0, "s0", "carol", 1000, 1000),
       TransferLog(60, 1, "s0", ZERO_ADDRESS, "carol", 1000),
       PoolLog("Deposit", 100, 0, "s1", "bob", 1000, 1000),
       TransferLog(100, 1, "s1", ZERO_ADDRESS, "bob", 1000),
       TransferLog(150, 0, "s2", "carol", "bob", 400),
       PoolLog("Withdraw", 200, 0, "s3", "bob", 550, 500),
       TransferLog(200, 1, "s3", "bob", ZERO_ADDRESS, 500),
       PoolLog("Deposit", 200, 2, "s4", "carol", 1000, 1000),
       TransferLog(200, 3, "s4", ZERO_ADDRESS, "carol", 1000) >>

\* Requests in revenue-share mode:
\* <<fromBlock, toBlock, chain, <<revenueShareAddresses, revenueShareCoeff>> >>
RevenueShareRequests ==
    {100} \X {200} \X SubChains(ShareUniverse, MaxShareLogs)
      \X { << <<"carol">>, <<5000>> >>, << <<"carol", "bob">>, <<5000>> >>,
           << <<"carol">>, <<>> >> }

\* <<fromBlock, toBlock, chain, options>>
CalcRequests ==
    ({100} \X {200} \X SubChains(NearUniverse, MaxCalcLogs) \X NearOptions)
      \cup ({14000000} \X {14100000} \X SubChains(FarUniverse, MaxCalcLogs)
              \X {<<TREASURY, TREASURY, <<5000>> >>})
      \cup ({3000000} \X {3100000} \X SubChains(FarUniverse, MaxCalcLogs)
              \X {<<TREASURY, TREASURY, <<5000>> >>})
      \cup ({300} \X {300} \X SubChains(NearUniverse, MaxCalcLogs)
              \X {<<TREASURY, TREASURY, <<5000>> >>})

\* The call has validated its input and converted both dates to blocks
\* (lines 90-142).
InitCalc ==
    /\ ReplayIdle
    /\ ConcIdle
    /\ RunIdle
    /\ AuxIdle
    /\ FetchIdle
    /\ \/ \E r \in CalcRequests :
         /\ fromBlock = r[1]
         /\ toBlock = r[2]
         /\ chain = r[3]
         /\ treasuryAddressOverride = r[4][1]
         /\ onChainTreasury = r[4][2]
         /\ daoShareOverride = r[4][3]
         /\ deployDate = NoDate
         /\ revenueShareAddresses = <<>> /\ revenueShareCoeff = <<>>
       \/ \E r \in DeployDateRequests :
         /\ fromBlock = r[1]
         /\ toBlock = r[2]
         /\ chain = r[3]
         /\ treasuryAddressOverride = TREASURY
         /\ onChainTreasury = TREASURY
         /\ daoShareOverride = <<5000>>
         /\ deployDate = r[4]
         /\ revenueShareAddresses = <<>> /\ revenueShareCoeff = <<>>
       \/ \E r \in RevenueShareRequests :
         /\ fromBlock = r[1]
         /\ toBlock = r[2]
         /\ chain = r[3]
         /\ treasuryAddressOverride = TREASURY
         /\ onChainTreasury = TREASURY
         /\ daoShareOverride = <<5000>>
         /\ deployDate = NoDate
         /\ revenueShareAddresses = r[4][1]
         /\ revenueShareCoeff = r[4][2]
    /\ deployBlock = deployBlockAtEntry(effectiveDeployDate, fromBlock)
    /\ automaticLookbackDays = lookbackDaysAtEntry(effectiveDeployDate)
    /\ interestFee = 2000
    /\ allEvents = <<>> /\ transferEventsAll = <<>> /\ snapshots = <<>>
    /\ anchorSnapshots = <<>> /\ anchorTimestamps = <<>> /\ treasuryAddress = ""
    /\ intervalIndex = 0 /\ sharePriceDiff = 0 /\ intervalRevenue = 0
    /\ totalRevenue = 0 /\ weightedTVLSum = 0
    /\ totalTimeSum = 0 /\ negativeSharePriceIntervals = 0
    /\ realizedSharesMinted = 0 /\ realizedRevenueRaw = 0
    /\ balanceSnapshots = <<>> /\ addressesWeightedTVL = 0
    /\ report = NoResult /\ calcError = NoResult
    /\ calcPc = "fetch" /\ rounds = 0
    /\ ioCall = "" /\ ioAttempt = 0

\* The call rejects: the catch block wraps what was thrown.
CalcFails(error) ==
    /\ calcError' = Rejection(error)
    /\ report' = NoResult
    /\ calcPc' = "failed"

\* One round of the lookback loop (lines 146-199): fetch deployBlock..toBlock,
\* replay, then leave the loop or widen the window.
LookbackRound ==
    /\ calcPc = "fetch"
    /\ LET fetched == poolEventsFetched(deployBlock, toBlock)
           derived == derivePoolSnapshotsFromEvents(fetched.events).snapshots
           hasSupply == hasSupplyBeforePeriod(derived, fromBlock)
           newLookbackDays == Min(MAX_LOOKBACK_DAYS, automaticLookbackDays * 2)
           newDeployBlock == Max(0, fromBlock - newLookbackDays * APPROX_BLOCKS_PER_DAY)
           leave == \/ effectiveDeployDate # NoDate
                    \/ hasSupply
                    \/ deployBlock = 0
                    \/ automaticLookbackDays >= MAX_LOOKBACK_DAYS
                    \/ newDeployBlock = deployBlock
       IN  /\ allEvents' = fetched.events
           /\ transferEventsAll' = fetched.transferEvents
           /\ snapshots' = derived
           /\ rounds' = rounds + 1
           /\ IF leave
              THEN /\ calcPc' = "anchor"
                   /\ UNCHANGED <<deployBlock, automaticLookbackDays>>
              ELSE /\ calcPc' = "fetch"
                   /\ automaticLookbackDays' = newLookbackDays
                   /\ deployBlock' = newDeployBlock
    /\ ioCall' = "" /\ ioAttempt' = 0
    /\ UNCHANGED <<chain, auxVars, runVars, concVars, replayVars, fetchVars, calcInputs, calcAnchors, calcTotals,
                   calcRealized, calcShare, calcOutcome>>

\* Lines 208-251: both boundary timestamps are read, then the anchors are
\* chosen; the call throws on no snapshot and on fewer than two anchors.
Anchor ==
    /\ calcPc = "anchor"
    /\ IF snapshots = <<>>
       THEN /\ CalcFails(NO_EVENTS)
            /\ UNCHANGED anchorSnapshots
       ELSE /\ anchorSnapshots' = anchorWindow(snapshots, fromBlock, toBlock)
            /\ IF Len(anchorSnapshots') < 2
               THEN CalcFails(NOT_ENOUGH_EVENTS)
               ELSE calcPc' = "config" /\ UNCHANGED calcOutcome
    /\ ioCall' = "" /\ ioAttempt' = 0
    /\ UNCHANGED <<chain, auxVars, runVars, concVars, replayVars, fetchVars, calcInputs, calcFetched,
                   anchorTimestamps, treasuryAddress, calcTotals, calcRealized, calcShare>>

\* Lines 253-317: anchor timestamps, the DAO share, the underlying token and
\* the treasury address.
Configure ==
    /\ calcPc = "config"
    /\ anchorTimestamps' =
         [i \in DOMAIN anchorSnapshots |-> BlockTimestamp(anchorSnapshots[i].blockNumber)]
    /\ LET resolved == resolveTreasury(treasuryAddressOverride, onChainTreasury)
       IN  IF daoShareOverride = <<>>
           THEN CalcFails(DAO_SHARE_REQUIRED) /\ UNCHANGED treasuryAddress
           ELSE IF "error" \in DOMAIN resolved
           THEN CalcFails(resolved.error) /\ UNCHANGED treasuryAddress
           ELSE /\ treasuryAddress' = resolved.address
                /\ calcPc' = "intervals"
                /\ UNCHANGED calcOutcome
    /\ ioCall' = "" /\ ioAttempt' = 0
    /\ UNCHANGED <<chain, auxVars, runVars, concVars, replayVars, fetchVars, calcInputs, calcFetched,
                   anchorSnapshots, calcTotals, calcRealized, calcShare>>

\* One iteration of the interval loop (lines 334-357).
ProcessInterval ==
    /\ calcPc = "intervals"
    /\ intervalIndex < Len(anchorSnapshots) - 1
    /\ LET i == intervalIndex + 1
           current == anchorSnapshots[i]
           next == anchorSnapshots[i + 1]
           timeDelta == anchorTimestamps[i + 1] - anchorTimestamps[i]
           diff == next.sharePrice - current.sharePrice
       IN  /\ intervalIndex' = i
           /\ IF timeDelta <= 0
              THEN /\ sharePriceDiff' = 0
                   /\ intervalRevenue' = 0
                   /\ UNCHANGED <<totalRevenue, weightedTVLSum, totalTimeSum,
                                  negativeSharePriceIntervals>>
              ELSE /\ sharePriceDiff' = diff
                   /\ intervalRevenue' = revenueOverInterval(current, next)
                   /\ negativeSharePriceIntervals' =
                        negativeSharePriceIntervals + (IF diff < 0 THEN 1 ELSE 0)
                   /\ totalRevenue' = totalRevenue + intervalRevenue'
                   /\ weightedTVLSum' = weightedTVLSum + current.expectedLiquidity * timeDelta
                   /\ totalTimeSum' = totalTimeSum + timeDelta
    /\ UNCHANGED calcIo
    /\ UNCHANGED <<chain, auxVars, runVars, concVars, replayVars, fetchVars, calcInputs, calcFetched, calcAnchors,
                   calcRealized, calcShare, calcOutcome, calcPc>>

actualFromBlock == anchorSnapshots[1].blockNumber
actualToBlock == anchorSnapshots[Len(anchorSnapshots)].blockNumber

\* transferEventsAll.filter(block >= actualFromBlock && block <= actualToBlock)
transferEventsForRange ==
    SelectLogs(transferEventsAll,
               {e \in Range(transferEventsAll) :
                  e.blockNumber >= actualFromBlock /\ e.blockNumber <= actualToBlock})

\* The interval loop has ended; lines 363-410 add up the treasury mints.
RealizedRevenue ==
    /\ calcPc = "intervals"
    /\ intervalIndex = Len(anchorSnapshots) - 1
    /\ realizedSharesMinted' =
         mintedShares(transferEventsForRange, treasuryAddress,
                      treasuryDepositTxs(allEvents, treasuryAddress))
    /\ realizedRevenueRaw' =
         bigDiv(realizedSharesMinted' * anchorSnapshots[Len(anchorSnapshots)].sharePrice,
                SHARE_PRICE_SCALE)
    /\ calcPc' = "share"
    /\ UNCHANGED <<calcIo, calcShare>>
    /\ UNCHANGED <<chain, auxVars, runVars, concVars, replayVars, fetchVars, calcInputs, calcFetched, calcAnchors,
                   calcTotals, calcOutcome>>

\* revenueShareAddresses && revenueShareAddresses.length > 0
\*   && revenueShareCoeff !== null
revenueShareEnabled == revenueShareAddresses # <<>> /\ revenueShareCoeff # <<>>

\* [...new Set(blocks)].sort((a, b) => a - b)
RECURSIVE sortedUnique(_)
sortedUnique(blocks) ==
    IF blocks = {} THEN <<>>
    ELSE LET least == CHOOSE b \in blocks : \A c \in blocks : b <= c
         IN  <<least>> \o sortedUnique(blocks \ {least})

\* Lines 426-444: blocks of the anchored range with a transfer from or to
\* a selected address.
relevantBlocks(transferEvents, addresses) ==
    { transferEvents[i].blockNumber : i \in
        { j \in DOMAIN transferEvents :
            /\ transferEvents[j].blockNumber >= actualFromBlock
            /\ transferEvents[j].blockNumber <= actualToBlock
            /\ \/ transferEvents[j].from \in Range(addresses)
               \/ transferEvents[j].to \in Range(addresses) } }

\* [actualFromBlock, ...relevantBlocks, actualToBlock] without duplicates,
\* ascending.
allBalanceCheckBlocks ==
    sortedUnique({actualFromBlock, actualToBlock}
                   \cup relevantBlocks(transferEventsForRange, revenueShareAddresses))

\* String.prototype.toLowerCase on the address texts used here: "Carol" and
\* "Bob" stand for the checksummed (mixed-case) spelling of "carol" and "bob".
toLowerCase(address) ==
    CASE address = "Carol" -> "carol"
      [] address = "Bob" -> "bob"
      [] OTHER -> address

\* Variant whose debit is not stopped at zero.
applyTransferUnfloored(balances, transfer, addressSet) ==
    LET from == toLowerCase(transfer.from)
        to == toLowerCase(transfer.to)
        debited ==
          IF from \in addressSet /\ from # ZERO_ADDRESS
          THEN [balances EXCEPT ![from] = @ - transfer.value]
          ELSE balances
    IN  IF to \in addressSet
        THEN [debited EXCEPT ![to] = @ + transfer.value]
        ELSE debited

\* The body of the while loop of getAddressBalancesAtBlocksFromEvents: the
\* debit stops at zero and is skipped for the zero address, then the credit.
applyTransfer(balances, transfer, addressSet) ==
    LET from == toLowerCase(transfer.from)
        to == toLowerCase(transfer.to)
        debited ==
          IF from \in addressSet /\ from # ZERO_ADDRESS
          THEN [balances EXCEPT ![from] =
                  IF @ > transfer.value THEN @ - transfer.value ELSE 0]
          ELSE balances
    IN  IF to \in addressSet
        THEN [debited EXCEPT ![to] = @ + transfer.value]
        ELSE debited

\* for (const targetBlock of uniqueTargets) { while (...) {...}
\*   snapshots.set(targetBlock, new Map(balances)) }
RECURSIVE balancesAtTargets(_, _, _, _, _)
balancesAtTargets(sortedTransfers, targets, eventIndex, balances, addressSet) ==
    IF targets = <<>> THEN <<>>
    ELSE IF /\ eventIndex <= Len(sortedTransfers)
            /\ sortedTransfers[eventIndex].blockNumber <= Head(targets)
    THEN balancesAtTargets(sortedTransfers, targets, eventIndex + 1,
                           applyTransfer(balances, sortedTransfers[eventIndex],
                                         addressSet),
                           addressSet)
    ELSE <<[blockNumber |-> Head(targets), balances |-> balances]>>
           \o balancesAtTargets(sortedTransfers, Tail(targets), eventIndex, balances,
                                addressSet)

\* getAddressBalancesAtBlocksFromEvents with options.transferEvents given:
\* the snapshots in the order they were set.
getAddressBalancesAtBlocksFromEvents(targetBlocks, addresses, transferEvents) ==
    IF addresses = <<>> \/ targetBlocks = <<>> THEN <<>>
    ELSE LET normalizedAddresses == {toLowerCase(addresses[i]) : i \in DOMAIN addresses}
         IN  balancesAtTargets(sortEventsByBlockAndIndex(transferEvents),
                               sortedUnique(Range(targetBlocks)), 1,
                               [a \in normalizedAddresses |-> 0], normalizedAddresses)

\* for (const balance of balances.values()) totalBalance += balance
RECURSIVE totalBalance(_)
totalBalance(balances) ==
    IF DOMAIN balances = {} THEN 0
    ELSE LET a == CHOOSE x \in DOMAIN balances : TRUE
         IN  balances[a] + totalBalance([x \in DOMAIN balances \ {a} |-> balances[x]])

\* Lines 467-483: the balances weighted by the time to the next checkpoint.
RECURSIVE addressesTotalBalance(_, _)
addressesTotalBalance(checkpoints, i) ==
    IF i >= Len(checkpoints) THEN 0
    ELSE LET timeDelta == BlockTimestamp(checkpoints[i + 1].blockNumber)
                            - BlockTimestamp(checkpoints[i].blockNumber)
         IN  (IF timeDelta > 0
              THEN totalBalance(checkpoints[i].balances) * timeDelta ELSE 0)
               + addressesTotalBalance(checkpoints, i + 1)

\* Lines 412-488: the revenue-share balances, skipped when no addresses or
\* no coefficient were given.
RevenueShare ==
    /\ calcPc = "share"
    /\ IF revenueShareEnabled
       THEN /\ balanceSnapshots' =
                 getAddressBalancesAtBlocksFromEvents(allBalanceCheckBlocks,
                     revenueShareAddresses, transferEventsForRange)
            /\ addressesWeightedTVL' =
                 IF totalTimeSum > 0
                 THEN bigDiv(addressesTotalBalance(balanceSnapshots', 1), totalTimeSum)
                 ELSE 0
       ELSE UNCHANGED calcShare
    /\ calcPc' = "finalize"
    /\ ioCall' = "" /\ ioAttempt' = 0
    /\ UNCHANGED <<chain, auxVars, runVars, concVars, replayVars, fetchVars, calcInputs, calcFetched,
                   calcAnchors, calcTotals, calcRealized, calcOutcome>>

\* Variant without Math.min(..., 1).
coverageRatioUnclamped(effectiveCoverageSeconds, requestedPeriodSeconds) ==
    IF requestedPeriodSeconds > 0
    THEN <<effectiveCoverageSeconds, requestedPeriodSeconds>>
    ELSE <<0, 1>>

\* requestedPeriodSeconds > 0
\*   ? Math.min(effectiveCoverageSeconds / requestedPeriodSeconds, 1) : 0
\* as the fraction <<numerator, denominator>>.
coverageRatio(effectiveCoverageSeconds, requestedPeriodSeconds) ==
    IF requestedPeriodSeconds > 0
    THEN IF effectiveCoverageSeconds >= requestedPeriodSeconds
         THEN <<1, 1>>
         ELSE <<effectiveCoverageSeconds, requestedPeriodSeconds>>
    ELSE <<0, 1>>

\* Variant without the floor at zero.
unrealizedUnfloored(totalRevenueForDAO, realizedRevenueForDAO) ==
    totalRevenueForDAO - realizedRevenueForDAO

\* Variant that reports the distance between the two amounts.
unrealizedDistance(totalRevenueForDAO, realizedRevenueForDAO) ==
    Abs(totalRevenueForDAO - realizedRevenueForDAO)

\* totalRevenueForDAO > realizedRevenueForDAO
\*   ? totalRevenueForDAO - realizedRevenueForDAO : 0n
unrealizedRevenueForDAO(totalRevenueForDAO, realizedRevenueForDAO) ==
    IF totalRevenueForDAO > realizedRevenueForDAO
    THEN totalRevenueForDAO - realizedRevenueForDAO ELSE 0

\* Variant that forgets to divide by the covered time.
averageTVLUndivided(weighted, time) == IF time > 0 THEN weighted ELSE 0

\* const avgTVL = totalTimeSum > 0 ? weightedTVLSum / BigInt(totalTimeSum) : 0n
averageTVL(weighted, time) == IF time > 0 THEN bigDiv(weighted, time) ELSE 0

\* Lines 495-580: fees, the token's decimals and name, the revenue share and
\* the result object (its integer fields).
Finalize ==
    /\ calcPc = "finalize"
    /\ LET requestedPeriodSeconds ==
             Max(BlockTimestamp(toBlock) - BlockTimestamp(fromBlock), 0)
           avgTVL == averageTVL(weightedTVLSum, totalTimeSum)
           revenueWithInterestFee == bigDiv(totalRevenue * scaledBps(interestFee), 10000)
           totalRevenueForDAO ==
             bigDiv(revenueWithInterestFee * scaledBps(daoShareOverride[1]), 10000)
           revenueShareCalculated == revenueShareEnabled /\ totalRevenueForDAO > 0
           revenueShareInfo ==
             IF revenueShareCalculated
             THEN [ addressesWeightedTVLRaw |-> addressesWeightedTVL,
                    revenueShareRaw |->
                      bigDiv(totalRevenueForDAO * scaledBps(revenueShareCoeff[1]), 10000),
                    revenueShareAddresses |-> revenueShareAddresses,
                    revenueShareCoeff |-> revenueShareCoeff[1] ]
             ELSE <<>>
       IN  report' = revenueShareInfo @@
                     [ totalEvents |->
                         Cardinality({i \in DOMAIN allEvents :
                                        /\ allEvents[i].blockNumber >= fromBlock
                                        /\ allEvents[i].blockNumber <= toBlock}),
                       totalRevenueRaw |-> totalRevenue,
                       realizedRevenueRaw |-> realizedRevenueRaw,
                       totalRevenueWithRealizedRaw |-> totalRevenueForDAO,
                       avgTVLRaw |-> avgTVL,
                       requestedPeriodSeconds |-> requestedPeriodSeconds,
                       dataCoverageSeconds |-> totalTimeSum,
                       coverageRatio |->
                         coverageRatio(totalTimeSum, requestedPeriodSeconds),
                       negativeSharePriceIntervals |-> negativeSharePriceIntervals,
                       actualFromBlock |-> actualFromBlock,
                       actualToBlock |-> actualToBlock,
                       deployBlock |-> deployBlock,
                       realizedRevenueDao |-> realizedRevenueRaw,
                       unrealizedRevenueDao |->
                         unrealizedRevenueForDAO(totalRevenueForDAO, realizedRevenueRaw),
                       totalRevenueDao |-> totalRevenueForDAO,
                       interestFee |-> interestFee,
                       daoSplit |-> daoShareOverride[1],
                       treasuryAddress |-> treasuryAddress ]
    /\ calcPc' = "done"
    /\ ioCall' = "" /\ ioAttempt' = 0
    /\ UNCHANGED <<chain, auxVars, runVars, concVars, replayVars, fetchVars, calcInputs, calcFetched, calcAnchors,
                   calcTotals, calcRealized, calcShare, calcError>>

\* The RPC calls a step of the function awaits.
CallsAt(pc) ==
    IF pc = "fetch" THEN {"getLogs"}
    ELSE IF pc = "anchor" THEN {"getBlock"}
    ELSE IF pc = "config" THEN {"getBlock", "underlying"}
    ELSE IF pc = "share" /\ revenueShareEnabled THEN {"getBlock"}
    ELSE IF pc = "finalize" THEN {"decimals"}
    ELSE {}

\* Calls made through withRetry: getLogs in getPoolEvents and readContract in
\* getUnderlyingToken. getBlock (getBlockTimestamp) and the decimals read
\* (getTokenDecimals) call the client directly.
WrappedCalls == {"getLogs", "underlying"}

\* attempt of the withRetry call around `call`
attemptOf(call) == IF ioCall = call THEN ioAttempt ELSE 0

\* A wrapped call fails with a retriable error and withRetry has budget
\* left: it sleeps and calls again.
CallRetried(call, error) ==
    /\ call \in CallsAt(calcPc) \cap WrappedCalls
    /\ ~withRetryRethrows(error, attemptOf(call))
    /\ ioCall' = call
    /\ ioAttempt' = attemptOf(call) + 1
    /\ UNCHANGED <<chain, auxVars, runVars, concVars, replayVars, fetchVars, calcInputs, calcFetched,
                   calcAnchors, calcTotals, calcRealized, calcShare, calcOutcome, calcPc>>

\* An RPC call of the current step throws to the function: a direct call on
\* its first failure, a wrapped call when withRetry rethrows.
RpcFailure(call, error) ==
    /\ call \in CallsAt(calcPc)
    /\ call \in WrappedCalls => withRetryRethrows(error, attemptOf(call))
    /\ isBlockRangeLimitError(error) => call = "getLogs"
    /\ CalcFails(error)
    /\ ioCall' = call
    /\ ioAttempt' = attemptOf(call)
    /\ UNCHANGED <<chain, auxVars, runVars, concVars, replayVars, fetchVars, calcInputs, calcFetched,
                   calcAnchors, calcTotals, calcRealized, calcShare>>

NextCalc ==
    \/ LookbackRound
    \/ Anchor
    \/ Configure
    \/ ProcessInterval
    \/ RealizedRevenue
    \/ RevenueShare
    \/ Finalize
    \/ \E call \in WrappedCalls, error \in TransportFailures : CallRetried(call, error)
    \/ \E call \in {"getLogs", "getBlock", "underlying", "decimals"},
          error \in TransportFailures : RpcFailure(call, error)

SpecCalc == InitCalc /\ [][NextCalc]_vars

\* ------------------------------------------------------------------ claims on SpecCalc

\* The last iteration of the interval loop ran on an interval with
\* timeDelta > 0 over which the share price fell.
DeclineProcessed ==
    /\ intervalIndex >= 1
    /\ anchorTimestamps[intervalIndex + 1] - anchorTimestamps[intervalIndex] > 0
    /\ anchorSnapshots[intervalIndex + 1].sharePrice
         < anchorSnapshots[intervalIndex].sharePrice

\* S * |next.sharePrice - current.sharePrice| of that interval.
DeclineProduct ==
    anchorSnapshots[intervalIndex].totalSupply
      * (anchorSnapshots[intervalIndex].sharePrice
           - anchorSnapshots[intervalIndex + 1].sharePrice)

\* C6 as stated: over an interval with timeDelta > 0 and a falling share
\* price the interval revenue is negative, and its magnitude is
\* S * |diff| / SCALE with the division applied to the magnitude.
C6_DeclineIsNegative ==
    DeclineProcessed =>
        /\ intervalRevenue < 0
        /\ -intervalRevenue = DeclineProduct \div SHARE_PRICE_SCALE

\* C6 amended: over such an interval the interval revenue is never positive,
\* its magnitude is S * |diff| / SCALE with the division applied to the
\* magnitude, and it is negative exactly when S * |diff| >= SCALE (it is zero
\* for an empty pool and for a product below one scale unit).
C6_DeclineMagnitude ==
    DeclineProcessed =>
        /\ intervalRevenue <= 0
        /\ -intervalRevenue = DeclineProduct \div SHARE_PRICE_SCALE
        /\ (intervalRevenue < 0) <=> (DeclineProduct >= SHARE_PRICE_SCALE)
        /\ sharePriceDiff < 0

\* A decline was processed whose product is not a multiple of SCALE and whose
\* revenue is negative.
C6_Witness ==
    /\ DeclineProcessed
    /\ intervalRevenue < 0
    /\ DeclineProduct % SHARE_PRICE_SCALE # 0

\* BigInt division of x by SCALE, written out on the magnitude.
TruncatedByScale(x) ==
    IF x >= 0 THEN x \div SHARE_PRICE_SCALE ELSE -((-x) \div SHARE_PRICE_SCALE)

\* The pool's whole fetched history is one Deposit then one Withdraw, both of
\* a positive number of shares.
DepositThenWithdraw ==
    /\ Len(allEvents) = 2
    /\ allEvents[1].type = "Deposit" /\ allEvents[1].shares > 0
    /\ allEvents[2].type = "Withdraw" /\ allEvents[2].shares > 0

\* C7: after Deposit(s1, a1) then Withdraw(s2, a2) the snapshots carry prices
\* floor(a1*SCALE/s1) and floor(a2*SCALE/s2) (each when positive, else the
\* price before) and supplies s1 and max(s1 - s2, 0); when both snapshots are
\* anchored the revenue total is s1 * (price2 - price1) / SCALE in integer
\* arithmetic, weighted with the supply of the earlier snapshot.
C7_DepositWithdrawRevenue ==
    DepositThenWithdraw =>
        LET s1 == allEvents[1].shares
            a1 == allEvents[1].assets
            s2 == allEvents[2].shares
            a2 == allEvents[2].assets
            q1 == (a1 * SHARE_PRICE_SCALE) \div s1
            q2 == (a2 * SHARE_PRICE_SCALE) \div s2
            price1 == IF q1 > 0 THEN q1 ELSE 0
            price2 == IF q2 > 0 THEN q2 ELSE price1
        IN  /\ Len(snapshots) = 2
            /\ snapshots[1].sharePrice = price1
            /\ snapshots[1].totalSupply = s1
            /\ snapshots[2].sharePrice = price2
            /\ snapshots[2].totalSupply = (IF s1 > s2 THEN s1 - s2 ELSE 0)
            /\ (calcPc \in {"share", "finalize", "done"} /\ Len(anchorSnapshots) = 2) =>
                  /\ totalRevenue = TruncatedByScale(s1 * (price2 - price1))
                  /\ totalRevenue = intervalRevenue

\* The example of the claim: shares 1000 / assets 1000 then shares 400 /
\* assets 440 reported with supply 600 and revenue 100.
C7_Witness ==
    /\ calcPc = "done"
    /\ DepositThenWithdraw
    /\ allEvents[1].shares = 1000 /\ allEvents[1].assets = 1000
    /\ allEvents[2].shares = 400 /\ allEvents[2].assets = 440
    /\ snapshots[2].totalSupply = 600
    /\ report.totalRevenueRaw = 100

SnapshotsInRange ==
    {i \in DOMAIN snapshots :
       snapshots[i].blockNumber >= fromBlock /\ snapshots[i].blockNumber <= toBlock}

\* C8 as stated: with at least two snapshots inside [fromBlock, toBlock] the
\* call does not fail with 'Not enough events' (the anchors are at least
\* two); and once fewer than two anchors were selected the call has failed
\* and there is no report.
C8_TwoInRangeGiveTwoAnchors ==
    /\ (Cardinality(SnapshotsInRange) >= 2 /\ calcPc = "failed") =>
          calcError.cause # NOT_ENOUGH_EVENTS
    /\ (calcPc \notin {"fetch", "anchor"} /\ Len(anchorSnapshots) < 2) =>
          calcPc = "failed" /\ report = NoResult

\* Treasury mints of the chain inside the anchored block range.
TreasuryMintsInRange ==
    {i \in DOMAIN chain :
       /\ chain[i].type = "Transfer"
       /\ chain[i].from = ZERO_ADDRESS
       /\ chain[i].to = treasuryAddress
       /\ chain[i].blockNumber >= actualFromBlock
       /\ chain[i].blockNumber <= actualToBlock}

\* Logs of the chain that are Deposits of the treasury in transaction tx.
TreasuryDepositsOf(tx) ==
    {j \in DOMAIN chain :
       /\ chain[j].type = "Deposit"
       /\ chain[j].owner = treasuryAddress
       /\ chain[j].transactionHash = tx}

RECURSIVE SumOfValues(_)
SumOfValues(I) ==
    IF I = {} THEN 0
    ELSE LET i == CHOOSE x \in I : TRUE
         IN  chain[i].value + SumOfValues(I \ {i})

RealizedComputed == calcPc \in {"share", "finalize", "done"}

\* C9 as stated: realizedSharesMinted is the sum of value over the treasury
\* mints in the anchored range whose transaction holds no Deposit of the
\* treasury.
C9_MintsWithoutTreasuryDeposit ==
    RealizedComputed =>
        realizedSharesMinted =
          SumOfValues({i \in TreasuryMintsInRange :
                         TreasuryDepositsOf(chain[i].transactionHash) = {}})

\* C9 amended: realizedSharesMinted is the sum of value over the treasury
\* mints in the anchored range whose transaction holds no Deposit of the
\* treasury with assets > 0; a treasury Deposit of zero assets excludes
\* nothing.
C9_MintsWithoutFundedTreasuryDeposit ==
    RealizedComputed =>
        realizedSharesMinted =
          SumOfValues({i \in TreasuryMintsInRange :
                         \A j \in TreasuryDepositsOf(chain[i].transactionHash) :
                            chain[j].assets = 0})

\* One mint was counted and another, in a transaction with a funded treasury
\* Deposit, was left out.
C9_Witness ==
    /\ calcPc = "done"
    /\ realizedSharesMinted = 70
    /\ \E i \in TreasuryMintsInRange :
          \E j \in TreasuryDepositsOf(chain[i].transactionHash) : chain[j].assets > 0

NoPoolLogUpToToBlock ==
    \A i \in DOMAIN chain : IsPoolEvent(chain[i]) => chain[i].blockNumber > toBlock

\* C10: when the chain holds no Deposit/Withdraw log at or before toBlock, the
\* call never returns a report and, unless an RPC request failed first, it
\* rejects with 'No deposit/withdraw events found to build pool state.',
\* whatever the number of lookback rounds and whatever Transfer logs exist.
C10_NoEventsFails ==
    (calcPc # "idle" /\ NoPoolLogUpToToBlock) =>
        /\ report = NoResult
        /\ calcPc \in {"fetch", "anchor", "failed"}
        /\ calcPc = "failed" =>
              \/ calcError.cause \in TransportFailures
              \/ calcError.message = "No deposit/withdraw events found to build pool state."

\* The call widened its lookback, fetched Transfer logs and still failed for
\* want of pool events.
C10_Witness ==
    /\ calcPc = "failed"
    /\ NoPoolLogUpToToBlock
    /\ calcError.cause = NO_EVENTS
    /\ rounds > 1
    /\ transferEventsAll # <<>>

MaxSeconds == 4

\* The fraction <<n, d>> lies in [0, 1].
InUnitInterval(q) == q[2] > 0 /\ 0 <= q[1] /\ q[1] <= q[2]

\* C11: the coverageRatio of every report lies in [0, 1]; and so does the
\* ratio computed from any covered time and any requested-window timestamps,
\* including a requested period of length <= 0 and a covered time longer than
\* the request.
C11_CoverageRatioInUnitInterval ==
    /\ report # NoResult => InUnitInterval(report.coverageRatio)
    /\ \A covered \in 0..MaxSeconds, initialTs, finalTs \in 0..MaxSeconds :
          InUnitInterval(coverageRatio(covered, Max(finalTs - initialTs, 0)))

\* A report whose anchors reach outside the requested window: the covered
\* time exceeds the requested period and the ratio is capped at 1.
C11_Witness ==
    /\ calcPc = "done"
    /\ report.dataCoverageSeconds > report.requestedPeriodSeconds
    /\ report.coverageRatio = <<1, 1>>

\* C12: the unrealized DAO revenue of a report is never negative; it is
\* totalRevenueForDAO - realizedRevenue when that is positive and 0
\* otherwise, also when totalRevenueForDAO is negative.
C12_UnrealizedNeverNegative ==
    report # NoResult =>
        /\ report.unrealizedRevenueDao >= 0
        /\ report.unrealizedRevenueDao =
             (IF report.totalRevenueDao - report.realizedRevenueDao > 0
              THEN report.totalRevenueDao - report.realizedRevenueDao ELSE 0)

\* A report after a net decline of the share price: the DAO total is
\* negative and the unrealized revenue is 0.
C12_Witness ==
    /\ calcPc = "done"
    /\ report.totalRevenueDao < 0
    /\ report.unrealizedRevenueDao = 0

FetchRejected == fetchPc = "rejected"

\* getLogs calls made by the withRetry call that is running, or that threw:
\* one initial try plus `attempt` retries.
triesOfRequest == attempt + 1

\* The error is a connection reset: code ECONNRESET, no transient fragment in
\* its message.
ConnectionResetErrors ==
    {e \in FetchErrors : e.code = "econnreset"
                           /\ e.fragments \cap RETRYABLE_MESSAGE_FRAGMENTS = {}}

\* The error is of the transient class by its message (rate limiting).
TransientErrors ==
    {e \in FetchErrors : e.fragments \cap {"rate limit", "limit exceeded"} # {}}

\* The error is of the range-limit class.
RangeLimitErrors ==
    {e \in FetchErrors : e.fragments \cap {"block range", "too wide"} # {}}

\* C14 as stated: a getLogs request whose every try fails with a transient
\* error is tried at most 4 times in total before the error reaches the
\* caller of the fetch.
C14_AtMostFourTries ==
    (FetchRejected /\ fetchResult.error \in TransientErrors) => triesOfRequest <= 4

\* C14 amended: such a request is tried exactly maxRetries + 1 = 5 times (one
\* initial try and four retries) before the error reaches the caller, and no
\* request is ever tried more often.
C14_InitialTryPlusMaxRetries ==
    /\ triesOfRequest <= maxRetries + 1
    /\ (FetchRejected /\ fetchResult.error \in TransientErrors) =>
          triesOfRequest = maxRetries + 1

\* The fetch was rejected with a transient error after the fifth try.
C14_Witness ==
    /\ FetchRejected
    /\ fetchResult.error \in TransientErrors
    /\ triesOfRequest = 5

\* Errors that are neither transient nor range-limit errors.
FatalErrors ==
    FetchErrors \ (TransientErrors \cup RangeLimitErrors \cup ConnectionResetErrors)

\* C15: while a window is being requested, a getLogs failure with an error
\* that is neither transient nor a range-limit error cannot be retried and
\* cannot shrink the batch: its only outcome is that getPoolEvents rejects.
\* A rejected fetch carries the error alone (no events), and requests no
\* further window.
C15_FatalErrorAbortsFetch ==
    /\ (fetchPc = "loop" /\ currentFromBlock <= fetchToBlock) =>
          \A e \in FatalErrors :
              /\ ~ENABLED GetLogsRetried(e)
              /\ ~ENABLED GetLogsRangeLimited(e)
              /\ ENABLED GetLogsRejected(e)
    /\ FetchRejected =>
          /\ DOMAIN fetchResult = {"error"}
          /\ fetchResult.error \in FetchErrors
          /\ ~ENABLED NextFetch

\* The fetch was rejected with a fatal error at its first try of a window,
\* after an earlier window had delivered events.
C15_Witness ==
    /\ FetchRejected
    /\ fetchResult.error \in FatalErrors
    /\ attempt = 0
    /\ windows # <<>>
    /\ fetchedEvents # <<>>

\* ------------------------------------------------------------------ getPoolEvents, concurrent variant

\* for (startBlock = fromBlock; startBlock <= toBlock; startBlock += DEFAULT_MAX_BLOCK_RANGE)
\*   ranges.push({start, end: Math.min(startBlock + DEFAULT_MAX_BLOCK_RANGE - 1, toBlock)})
\* Variant whose ranges share their boundary block.
rangesOfOverlapping(from, to) ==
    LET count == IF from > to THEN 0 ELSE ((to - from) \div DEFAULT_MAX_BLOCK_RANGE) + 1
    IN  [k \in 1..count |->
           [start |-> from + (k - 1) * DEFAULT_MAX_BLOCK_RANGE,
            end |-> Min(from + k * DEFAULT_MAX_BLOCK_RANGE, to)]]

rangesOf(from, to) ==
    LET count == IF from > to THEN 0 ELSE ((to - from) \div DEFAULT_MAX_BLOCK_RANGE) + 1
    IN  [k \in 1..count |->
           [start |-> from + (k - 1) * DEFAULT_MAX_BLOCK_RANGE,
            end |-> Min(from + k * DEFAULT_MAX_BLOCK_RANGE - 1, to)]]

ranges == rangesOf(concFromBlock, concToBlock)

\* Math.min(maxConcurrency, ranges.length)
concurrency == Min(maxConcurrency, Len(ranges))

\* The window size of every request of the concurrent variant.
concBatchSize == DEFAULT_MAX_BLOCK_RANGE

\* Top of the worker loop: take the next index; leave the loop when the
\* ranges are used up, else issue the request for that range.
workerClaims(next) ==
    IF next >= Len(ranges)
    THEN [pc |-> "done", current |-> next, attempt |-> 0]
    ELSE [pc |-> "request", current |-> next, attempt |-> 0]

\* eventBuckets.flat().sort(by blockNumber) and the same for the transfers
concReturnValue(events, transfers) ==
    LET flat(buckets) ==
          LET f[k \in 0..Len(buckets)] == IF k = 0 THEN <<>> ELSE f[k - 1] \o buckets[k]
          IN  f[Len(buckets)]
    IN  fetchReturnValue(flat(events), flat(transfers), TRUE)

\* Promise.all(Array.from({length: concurrency}, () => worker())): every
\* worker runs up to its first await, one after the other.
StartWorkers ==
    /\ concPc = "start"
    /\ workers' = [w \in 1..concurrency |-> workerClaims(w - 1)]
    /\ nextIndex' = concurrency
    /\ concPc' = "run"
    /\ UNCHANGED <<chain, auxVars, runVars, replayVars, fetchVars, calcVars, concFromBlock, concToBlock,
                   maxConcurrency, eventBuckets, transferBuckets, fallbackToSequential,
                   concResult,
                   completions, concErrorSeen>>

\* The getLogs request of worker w succeeds: processRange pushes the logs
\* into the buckets of the range, and the worker goes on to its next range
\* (worker loop) or to the next remaining range (fallback loop).
ConcGetLogsSucceeds(w) ==
    /\ concPc = "run"
    /\ workers[w].pc \in {"request", "fallback"}
    /\ LET k == workers[w].current + 1
           held == LogsInWindow(ranges[k].start, ranges[k].end,
                                {"Deposit", "Withdraw", "Transfer"})
       IN  /\ eventBuckets' =
                [eventBuckets EXCEPT ![k] =
                   @ \o SelectLogs(held, {l \in Range(held) : IsPoolEvent(l)})]
           /\ transferBuckets' =
                [transferBuckets EXCEPT ![k] =
                   @ \o SelectLogs(held, {l \in Range(held) : l.type = "Transfer"})]
           /\ IF workers[w].pc = "request"
              THEN /\ workers' = [workers EXCEPT ![w] = workerClaims(nextIndex)]
                   /\ nextIndex' = nextIndex + 1
              ELSE IF k < Len(ranges)
              THEN /\ workers' = [workers EXCEPT ![w] =
                                    [pc |-> "fallback", current |-> k, attempt |-> 0]]
                   /\ UNCHANGED nextIndex
              ELSE /\ workers' = [workers EXCEPT ![w] =
                                    [pc |-> "done", current |-> k, attempt |-> 0]]
                   /\ nextIndex' = Len(ranges)
    /\ completions' = Append(completions, workers[w].current + 1)
    /\ UNCHANGED <<chain, auxVars, runVars, replayVars, fetchVars, calcVars, concFromBlock, concToBlock,
                   maxConcurrency, fallbackToSequential, concPc, concResult,
                   concErrorSeen>>

\* The request of worker w fails with a retriable error and withRetry has
\* budget left.
ConcGetLogsRetried(w, error) ==
    /\ concPc = "run"
    /\ workers[w].pc \in {"request", "fallback"}
    /\ ~withRetryRethrows(error, workers[w].attempt)
    /\ workers' = [workers EXCEPT ![w].attempt = @ + 1]
    /\ concErrorSeen' = TRUE
    /\ UNCHANGED <<chain, auxVars, runVars, replayVars, fetchVars, calcVars, concFromBlock, concToBlock,
                   maxConcurrency, eventBuckets, transferBuckets, nextIndex,
                   fallbackToSequential, concPc, concResult,
                   completions>>

\* withRetry rethrows a range-limit error to a worker loop and no worker has
\* fallen back yet: this worker starts the loop over the remaining ranges,
\* beginning with the range that failed.
ConcFallsBack(w, error) ==
    /\ concPc = "run"
    /\ workers[w].pc = "request"
    /\ withRetryRethrows(error, workers[w].attempt)
    /\ isBlockRangeLimitError(error) /\ ~fallbackToSequential
    /\ fallbackToSequential' = TRUE
    /\ workers' = [workers EXCEPT ![w] =
                     [pc |-> "fallback", current |-> workers[w].current, attempt |-> 0]]
    /\ concErrorSeen' = TRUE
    /\ UNCHANGED <<chain, auxVars, runVars, replayVars, fetchVars, calcVars, concFromBlock, concToBlock,
                   maxConcurrency, eventBuckets, transferBuckets, nextIndex, concPc,
                   concResult,
                   completions>>

\* withRetry rethrows any other error, or any error inside the fallback
\* loop: the worker throws, Promise.all rejects and so does getPoolEvents.
ConcWorkerThrows(w, error) ==
    /\ concPc = "run"
    /\ workers[w].pc \in {"request", "fallback"}
    /\ withRetryRethrows(error, workers[w].attempt)
    /\ \/ workers[w].pc = "fallback"
       \/ ~(isBlockRangeLimitError(error) /\ ~fallbackToSequential)
    /\ workers' = [workers EXCEPT ![w].pc = "threw"]
    /\ concPc' = "rejected"
    /\ concResult' = [error |-> error]
    /\ concErrorSeen' = TRUE
    /\ UNCHANGED <<chain, auxVars, runVars, replayVars, fetchVars, calcVars, concFromBlock, concToBlock,
                   maxConcurrency, eventBuckets, transferBuckets, nextIndex,
                   fallbackToSequential,
                   completions>>

\* Every worker has left its loop: the buckets are flattened, sorted and
\* returned.
ConcReturns ==
    /\ concPc = "run"
    /\ \A w \in DOMAIN workers : workers[w].pc = "done"
    /\ concPc' = "returned"
    /\ concResult' = concReturnValue(eventBuckets, transferBuckets)
    /\ UNCHANGED <<chain, auxVars, runVars, replayVars, fetchVars, calcVars, concFromBlock, concToBlock,
                   maxConcurrency, eventBuckets, transferBuckets, nextIndex,
                   fallbackToSequential, workers,
                   completions, concErrorSeen>>

\* ------------------------------------------------------------------ SpecConc

MaxConcLogs == 2

ConcUniverse ==
    << PoolLog("Deposit", 1000, 0, "u0", "alice", 10, 10),
       PoolLog("Withdraw", 100999, 0, "u1", "alice", 4, 4),
       PoolLog("Deposit", 101000, 0, "u2", "bob", 6, 6),
       TransferLog(101000, 1, "u2", ZERO_ADDRESS, "bob", 6),
       PoolLog("Withdraw", 201000, 0, "u3", "bob", 5, 5),
       PoolLog("Deposit", 251000, 0, "u4", "alice", 10, 10) >>

ConcChains ==
    { SelectLogs(ConcUniverse, {ConcUniverse[i] : i \in S}) :
        S \in {T \in SUBSET DOMAIN ConcUniverse : Cardinality(T) <= MaxConcLogs} }

ConcToBlocks == {999, 1000, 150000, 250999}

InitConc ==
    /\ ReplayIdle
    /\ FetchIdle
    /\ CalcIdle
    /\ RunIdle
    /\ AuxIdle
    /\ chain \in ConcChains
    /\ concFromBlock = 1000
    /\ concToBlock \in ConcToBlocks
    /\ maxConcurrency \in {1, 2, 4}
    /\ eventBuckets = [k \in DOMAIN ranges |-> <<>>]
    /\ transferBuckets = [k \in DOMAIN ranges |-> <<>>]
    /\ nextIndex = 0
    /\ fallbackToSequential = FALSE
    /\ workers = <<>>
    /\ concPc = "start"
    /\ concResult = NoResult
    /\ completions = <<>>
    /\ concErrorSeen = FALSE

NextConc ==
    \/ StartWorkers
    \/ \E w \in DOMAIN workers : ConcGetLogsSucceeds(w)
    \/ \E w \in DOMAIN workers, error \in FetchErrors : ConcGetLogsRetried(w, error)
    \/ \E w \in DOMAIN workers, error \in FetchErrors : ConcFallsBack(w, error)
    \/ \E w \in DOMAIN workers, error \in FetchErrors : ConcWorkerThrows(w, error)
    \/ ConcReturns

SpecConc == InitConc /\ [][NextConc]_vars

\* ------------------------------------------------------------------ claims on SpecConc

ConcRejected == concPc = "rejected"

\* C16 as stated, for the concurrent variant: getPoolEvents rejects with a
\* range-limit error only when the failed request was issued with the batch
\* size at the floor of MIN_BLOCK_RANGE blocks; a range-limit error at a
\* larger batch size never reaches the caller.
C16_RangeLimitSurfacesOnlyAtFloor ==
    (ConcRejected /\ concResult.error \in RangeLimitErrors) =>
        concBatchSize = MIN_BLOCK_RANGE

\* ------------------------------------------------------------------ claims on SpecCalc: I/O

\* Transport errors of the transient class.
TransientFailures == {e \in TransportFailures : "rate limit" \in e.fragments}

\* C17 as stated: every chain I/O call of calculateGearboxRevenue runs under
\* a bounded retry, so the call rejects with a transient error only after
\* the retry budget of the failing call is used up; one transient failure
\* alone does not fail the invocation.
C17_TransientFailureOnlyAfterBudget ==
    (calcPc = "failed" /\ calcError.cause \in TransientFailures) =>
        ioAttempt >= maxRetries

\* ------------------------------------------------------------------ claims on SpecCalc: deploy date

\* C18 as stated: when the caller passes a deployDate, the log fetch starts
\* at deployBlock = min(dateToStartBlock(deployDate), fromBlock), and the
\* automatic 365-day lookback is not used (no lookback days, one round).
C18_DeployDateSetsDeployBlock ==
    (deployDate # NoDate /\ rounds >= 1) =>
        /\ deployBlock = Min(deployDate[1], fromBlock)
        /\ automaticLookbackDays = 0
        /\ rounds = 1

\* No treasury override was given and the pool's treasury() read failed or
\* returned the zero address.
TreasuryUnresolvable ==
    /\ treasuryAddressOverride = NoAddress
    /\ onChainTreasury \in {ZERO_ADDRESS, Unreadable}

\* The call went past the pool configuration (lines 286-317).
PastConfiguration == calcPc \in {"intervals", "share", "finalize", "done"}

\* C19: when no treasury override is given and treasury() fails or returns
\* the zero address, the call never gets past the configuration and never
\* produces a report, and once the configuration has run it has failed
\* with the treasury error; whenever the call is past the configuration
\* (so whenever realized revenue is computed) the treasury address is a
\* resolved, non-zero address.
C19_NoReportWithoutTreasury ==
    /\ TreasuryUnresolvable =>
          /\ report = NoResult
          /\ ~PastConfiguration
          /\ (calcPc = "failed" /\ Len(anchorSnapshots) >= 2 /\ daoShareOverride # <<>>
                 /\ calcError.cause \notin TransportFailures)
              => calcError.cause \in {TREASURY_ZERO, TREASURY_UNREADABLE}
    /\ PastConfiguration => treasuryAddress \notin {NoAddress, ZERO_ADDRESS, Unreadable}

\* The call failed on a zero address returned by treasury().
C19_Witness ==
    /\ TreasuryUnresolvable
    /\ onChainTreasury = ZERO_ADDRESS
    /\ calcPc = "failed"
    /\ calcError.cause = TREASURY_ZERO
    /\ report = NoResult
    /\ realizedSharesMinted = 0

\* The call failed on a treasury() read that threw.
C19_WitnessUnreadable ==
    /\ TreasuryUnresolvable
    /\ calcPc = "failed"
    /\ calcError.cause = TREASURY_UNREADABLE

\* The balances of the tracked addresses after applying `transfers` in the
\* order given.
RECURSIVE balancesAfter(_, _, _)
balancesAfter(transfers, balances, addressSet) ==
    IF transfers = <<>> THEN balances
    ELSE balancesAfter(Tail(transfers), applyTransfer(balances, Head(transfers), addressSet),
                       addressSet)

\* Every retrieved Transfer log with blockNumber <= B, in
\* (blockNumber, logIndex) order.
RECURSIVE retrievedTransfersUpTo(_, _)
retrievedTransfersUpTo(transfers, B) ==
    IF transfers = <<>> THEN <<>>
    ELSE (IF Head(transfers).blockNumber <= B THEN <<Head(transfers)>> ELSE <<>>)
           \o retrievedTransfersUpTo(Tail(transfers), B)

pointInTimeBalances(B) ==
    balancesAfter(sortEventsByBlockAndIndex(retrievedTransfersUpTo(transferEventsAll, B)),
                  [a \in Range(revenueShareAddresses) |-> 0],
                  Range(revenueShareAddresses))

\* C20: in revenue-share mode the balances recorded at every checkpoint
\* block B are the point-in-time balances: the result of applying, in
\* (blockNumber, logIndex) order, every retrieved Transfer log with
\* blockNumber <= B, the transfers before the anchored start block included.
C20_CheckpointBalanceIsPointInTime ==
    \A i \in DOMAIN balanceSnapshots :
        balanceSnapshots[i].balances = pointInTimeBalances(balanceSnapshots[i].blockNumber)

\* ------------------------------------------------------------------ main and input validation

\* An address argument: `digits` characters after the prefix, all of them
\* hexadecimal or not, some of them upper case or not.
AddressText(prefixed, digits, allHex, upper) ==
    [prefixed |-> prefixed, digits |-> digits, allHex |-> allHex, upper |-> upper]

\* A date argument: shaped dddd-dd-dd or not, possibly with blanks around it.
DateText(iso, padded, y, m, d) ==
    [iso |-> iso, padded |-> padded, y |-> y, m |-> m, d |-> d]

\* /^0x[a-fA-F0-9]{40}$/
isValidEthereumAddress(address) ==
    address.prefixed /\ address.digits = 40 /\ address.allHex

daysInMonth(y, m) ==
    IF m \in {4, 6, 9, 11} THEN 30
    ELSE IF m = 2
    THEN IF (y % 4 = 0 /\ y % 100 # 0) \/ y % 400 = 0 THEN 29 ELSE 28
    ELSE 31

\* /^\d{4}-\d{2}-\d{2}$/ and new Date(s).toISOString().slice(0, 10) === s:
\* an Invalid Date and a date that rolls over into the next month both fail.
isValidDateFormat(date) ==
    /\ date # NoDate
    /\ date.iso /\ ~date.padded
    /\ date.m \in 1..12
    /\ date.d \in 1..daysInMonth(date.y, date.m)

\* new Date(fromDate) <= new Date(toDate)
isValidDateRange(from, to) ==
    /\ isValidDateFormat(from) /\ isValidDateFormat(to)
    /\ \/ from.y < to.y
       \/ from.y = to.y /\ from.m < to.m
       \/ from.y = to.y /\ from.m = to.m /\ from.d <= to.d

\* typeof percentage === 'number' && percentage >= 0 && percentage <= 10000;
\* NaN (<<>>) fails both comparisons.
isValidPercentage(percentage) ==
    percentage # <<>> /\ percentage[1] >= 0 /\ percentage[1] <= 10000

\* validateInputParameters(poolAddress, fromDate, toDate, interestFee): a
\* fifth argument is ignored.
validateInputParameters(poolAddress, from, to, fee) ==
    LET errors ==
          (IF ~isValidEthereumAddress(poolAddress)
           THEN {"Invalid pool address format"} ELSE {})
          \cup (IF ~isValidDateFormat(from)
                THEN {"Invalid fromDate format. Expected YYYY-MM-DD"} ELSE {})
          \cup (IF ~isValidDateFormat(to)
                THEN {"Invalid toDate format. Expected YYYY-MM-DD"} ELSE {})
          \cup (IF isValidDateFormat(from) /\ isValidDateFormat(to)
                     /\ ~isValidDateRange(from, to)
                THEN {"fromDate must be before or equal to toDate"} ELSE {})
          \cup (IF ~isValidPercentage(fee)
                THEN {"interestFee must be a number between 0 and 10000 (basis points)"}
                ELSE {})
    IN  [isValid |-> errors = {}, errors |-> errors]

\* sanitizeInputParameters: lower-cased address, trimmed dates, Number(fee).
sanitizeInputParameters(poolAddress, from, to, fee) ==
    [ poolAddress |-> [poolAddress EXCEPT !.upper = FALSE],
      fromDate |-> [from EXCEPT !.padded = FALSE],
      toDate |-> [to EXCEPT !.padded = FALSE],
      interestFee |-> fee ]

MaxChainRequests == 3

RunAddresses ==
    { AddressText(TRUE, 40, TRUE, FALSE), AddressText(TRUE, 40, TRUE, TRUE),
      AddressText(TRUE, 39, TRUE, FALSE), AddressText(FALSE, 40, TRUE, FALSE),
      AddressText(TRUE, 40, FALSE, FALSE) }

RunDates ==
    { DateText(TRUE, FALSE, 2024, 1, 1), DateText(TRUE, FALSE, 2024, 3, 1),
      DateText(TRUE, FALSE, 2024, 2, 30), DateText(TRUE, FALSE, 2024, 13, 1),
      DateText(FALSE, FALSE, 2024, 1, 1), DateText(TRUE, TRUE, 2024, 1, 1) }

\* parseInt(interestFee, 10): <<n>>, or <<>> for NaN
RunFees == { <<0>>, <<2000>>, <<10000>>, <<10001>>, <<0 - 1>>, <<>> }

\* --dao-share-bps: absent, or what parseInt made of its value
RunDaoShares ==
    { [given |-> FALSE, parsed |-> <<>>], [given |-> TRUE, parsed |-> <<>>],
      [given |-> TRUE, parsed |-> <<5000>>], [given |-> TRUE, parsed |-> <<10001>>] }

\* --deploy-date: absent, a date, or text that is no date
RunDeployDates ==
    { NoDate, DateText(TRUE, FALSE, 2023, 6, 1), DateText(FALSE, FALSE, 2023, 6, 1),
      DateText(TRUE, FALSE, 2023, 2, 31) }

InitRun ==
    /\ ReplayIdle
    /\ AuxIdle
    /\ FetchIdle
    /\ CalcIdle
    /\ ConcIdle
    /\ chain = <<>>
    /\ argv \in [ poolAddress : RunAddresses, fromDate : RunDates, toDate : RunDates,
                  interestFee : RunFees, daoShare : RunDaoShares,
                  deployDate : RunDeployDates ]
    /\ runPc = "main"
    /\ chainRequests = <<>>
    /\ runOutcome = NoResult

\* index.js lines 97-110: the --dao-share-bps flag is parsed and required.
MainParsesDaoShare ==
    /\ runPc = "main"
    /\ IF argv.daoShare.given
          /\ (argv.daoShare.parsed = <<>> \/ argv.daoShare.parsed[1] < 0
                \/ argv.daoShare.parsed[1] > 10000)
       THEN /\ runPc' = "exited"
            /\ runOutcome' = [exit |-> 1, errors |->
                 {"--dao-share-bps must be an integer between 0 and 10000."}]
       ELSE IF ~argv.daoShare.given
       THEN /\ runPc' = "exited"
            /\ runOutcome' = [exit |-> 1, errors |->
                 {"--dao-share-bps flag is required (DAO share in basis points)"}]
       ELSE runPc' = "validate" /\ UNCHANGED runOutcome
    /\ UNCHANGED <<chain, auxVars, replayVars, fetchVars, calcVars, concVars, argv, chainRequests>>

\* index.js lines 112-119: main validates the raw arguments.
MainValidates ==
    /\ runPc = "validate"
    /\ LET validation == validateInputParameters(argv.poolAddress, argv.fromDate,
                                                 argv.toDate, argv.interestFee)
       IN  IF ~validation.isValid
           THEN /\ runPc' = "exited"
                /\ runOutcome' = [exit |-> 1, errors |-> validation.errors]
           ELSE runPc' = "call" /\ UNCHANGED runOutcome
    /\ UNCHANGED <<chain, auxVars, replayVars, fetchVars, calcVars, concVars, argv, chainRequests>>

\* calculateGearboxRevenue lines 90-101: sanitize, validate again, throw.
CalculatorValidates ==
    /\ runPc = "call"
    /\ LET sanitized == sanitizeInputParameters(argv.poolAddress, argv.fromDate,
                                                argv.toDate, argv.interestFee)
           validation == validateInputParameters(sanitized.poolAddress,
                             sanitized.fromDate, sanitized.toDate, sanitized.interestFee)
       IN  IF ~validation.isValid
           THEN /\ runPc' = "rejected"
                /\ runOutcome' = [message |-> "Input validation failed",
                                  errors |-> validation.errors]
           ELSE runPc' = "blocks" /\ UNCHANGED runOutcome
    /\ UNCHANGED <<chain, auxVars, replayVars, fetchVars, calcVars, concVars, argv, chainRequests>>

\* Lines 111-112: dateToStartBlock asks for the latest block number, then
\* for blocks of its binary search.
ChainRequestIssued ==
    /\ runPc = "blocks"
    /\ Len(chainRequests) < MaxChainRequests
    /\ chainRequests' = Append(chainRequests,
                               IF chainRequests = <<>> THEN "getBlockNumber" ELSE "getBlock")
    /\ UNCHANGED <<chain, auxVars, replayVars, fetchVars, calcVars, concVars, argv, runPc, runOutcome>>

\* The dates are converted; the calculation goes on.
BlocksConverted ==
    /\ runPc = "blocks"
    /\ Len(chainRequests) >= 2
    /\ runPc' = "running"
    /\ UNCHANGED <<chain, auxVars, replayVars, fetchVars, calcVars, concVars, argv, chainRequests,
                   runOutcome>>

NextRun ==
    \/ MainParsesDaoShare
    \/ MainValidates
    \/ CalculatorValidates
    \/ ChainRequestIssued
    \/ BlocksConverted

SpecRun == InitRun /\ [][NextRun]_vars

\* A date argument that is given and is not a calendar date written
\* YYYY-MM-DD.
MalformedDate(date) == date # NoDate /\ ~isValidDateFormat(date)

\* The input a run must reject: a malformed pool address, a malformed date,
\* basis points outside 0..10000 (or not a number), or fromDate > toDate.
InvalidInput ==
    \/ ~isValidEthereumAddress(argv.poolAddress)
    \/ MalformedDate(argv.fromDate) \/ MalformedDate(argv.toDate)
    \/ MalformedDate(argv.deployDate)
    \/ ~isValidPercentage(argv.interestFee)
    \/ (argv.daoShare.given /\ ~isValidPercentage(argv.daoShare.parsed))
    \/ (~MalformedDate(argv.fromDate) /\ ~MalformedDate(argv.toDate)
          /\ ~isValidDateRange(argv.fromDate, argv.toDate))

\* C21: for every run whose input has a malformed pool address, a malformed
\* date, basis points outside 0..10000 or fromDate > toDate, no chain
\* request is ever issued and the run never gets to the date conversion.
C21_InvalidInputRejectedBeforeChainAccess ==
    (runPc # "idle" /\ InvalidInput) =>
        /\ chainRequests = <<>>
        /\ runPc \notin {"blocks", "running"}

\* What a caller of calculateGearboxRevenue gets to see of a failure: the
\* message of the Error thrown by the catch block (lines 582-585).
outcomeOf(error) == formatErrorMessage(error)

\* The errors of the other categories that can end the call: data
\* insufficiency, transient transport and range limit.
OtherCategoryErrors ==
    {NO_EVENTS, NOT_ENOUGH_EVENTS, TREASURY_ZERO, TREASURY_UNREADABLE,
     TREASURY_UNAVAILABLE, DAO_SHARE_REQUIRED}
      \cup {e \in TransportFailures : ~isHistoricalDataUnavailable(e)}

HistoricalFailure ==
    /\ calcPc = "failed"
    /\ calcError.cause \in TransportFailures
    /\ isHistoricalDataUnavailable(calcError.cause)

\* C22: when the call fails on an RPC error whose message matches a
\* historical-data-unavailable pattern, what the caller sees differs from
\* what it sees for every error of another category.
C22_HistoricalOutcomeIsDistinct ==
    HistoricalFailure => \A e \in OtherCategoryErrors : outcomeOf(e) # calcError.message

\* The call returned a report in revenue-share mode.
RevenueShareReported == calcPc = "done" /\ revenueShareEnabled

\* C23: whenever a non-empty revenue-share address set and a coefficient are
\* supplied and the calculation succeeds, the report holds the addresses'
\* weighted TVL, the revenue share amount and the coefficient used.
C23_ReportHoldsRevenueShare ==
    RevenueShareReported =>
        /\ {"addressesWeightedTVLRaw", "revenueShareRaw", "revenueShareCoeff"}
             \subseteq DOMAIN report
        /\ report.addressesWeightedTVLRaw = addressesWeightedTVL
        /\ report.revenueShareCoeff = revenueShareCoeff[1]

\* The lookback of the k-th fetch+replay round.
LookbackSchedule == <<365, 730, 1460, 1825>>

\* The state part of C24.
LookbackBounded ==
    (calcPc # "idle" /\ deployDate = NoDate) =>
        /\ rounds <= 4
        /\ deployBlock >= 0
        /\ automaticLookbackDays <= 5 * 365
        /\ calcPc = "fetch" => /\ rounds < 4
                               /\ automaticLookbackDays = LookbackSchedule[rounds + 1]
        /\ (calcPc \notin {"fetch", "failed"} /\ rounds >= 1) =>
              automaticLookbackDays = LookbackSchedule[rounds]
        /\ calcPc = "failed" =>
              \E k \in 1..4 : automaticLookbackDays = LookbackSchedule[k]

\* C24: with no deploy date the lookback loop ends after at most 4
\* fetch+replay rounds, the lookback is 365, 730, 1460, 1825 days in that
\* order and never more than 1825, deployBlock is never negative and no
\* round increases it.
C24_LookbackTerminates ==
    /\ []LookbackBounded
    /\ [][deployDate = NoDate =>
             /\ deployBlock' <= deployBlock
             /\ automaticLookbackDays' # automaticLookbackDays =>
                   \E k \in 1..3 : /\ automaticLookbackDays = LookbackSchedule[k]
                                   /\ automaticLookbackDays' = LookbackSchedule[k + 1]]_vars

\* The loop ran its fourth round at 1825 days and stopped.
C24_Witness ==
    /\ deployDate = NoDate
    /\ rounds = 4
    /\ calcPc = "anchor"
    /\ automaticLookbackDays = 1825
    /\ deployBlock > 0

\* C25 as stated: consecutive snapshots have strictly increasing block
\* numbers, for every input log sequence.
C25_StrictlyBlockOrdered ==
    Replayed =>
      \A i \in 1..(Len(replayResult.snapshots) - 1) :
          replayResult.snapshots[i].blockNumber < replayResult.snapshots[i + 1].blockNumber

\* C25, amended: there is one snapshot per log, consecutive snapshots have
\* non-decreasing block numbers, and two consecutive snapshots carry the
\* same block number exactly when their two logs are in the same block.
C25_BlockOrdered ==
    Replayed =>
      /\ Len(replayResult.snapshots) = Len(replayInput)
      /\ \A i \in 1..(Len(replayResult.snapshots) - 1) :
            /\ replayResult.snapshots[i].blockNumber
                 <= replayResult.snapshots[i + 1].blockNumber
            /\ replayResult.snapshots[i].blockNumber
                 = replayResult.snapshots[i + 1].blockNumber
               <=> chain[i].blockNumber = chain[i + 1].blockNumber

\* Logs passed out of block order, two of them in one block.
C25_Witness ==
    /\ Replayed
    /\ Len(replayResult.snapshots) = 3
    /\ replayInput[1].blockNumber > replayInput[3].blockNumber
    /\ \E i \in 1..2 :
          replayResult.snapshots[i].blockNumber = replayResult.snapshots[i + 1].blockNumber

\* C26: an error raised by a connection reset (code ECONNRESET, message
\* without a transient fragment) is classified as transient by
\* isRetriableError, and a fetch that is rejected with it has retried the
\* request until withRetry's budget was spent.
C26_ConnectionResetIsRetried ==
    (FetchRejected /\ fetchResult.error \in ConnectionResetErrors) =>
        /\ isRetriableError(fetchResult.error)
        /\ triesOfRequest = maxRetries + 1

\* A range-limit error has reached the catch block of the loop (withRetry
\* rethrew it) while the batch size is above the floor.
RangeLimitCaught(e) ==
    /\ fetchPc = "loop" /\ currentFromBlock <= fetchToBlock
    /\ isBlockRangeLimitError(e) /\ withRetryRethrows(e, attempt)
    /\ batchSize > 2000

\* The state part of C27.
BatchSizeWithinBounds ==
    fetchPc # "idle" =>
        /\ batchSize >= 2000 /\ batchSize <= 100000
        /\ \A e \in FetchErrors :
              RangeLimitCaught(e) =>
                  ENABLED GetLogsRangeLimited(e) /\ ~ENABLED GetLogsRejected(e)

\* C27: a range-limit error caught at batch size b > 2000 sets the batch
\* size to max(2000, floor(b / 2)) and the same start block is requested
\* again; throughout a fetch the batch size stays within [2000, 100000],
\* never increases, and changes in no other way.
C27_RangeLimitHalvesBatch ==
    /\ []BatchSizeWithinBounds
    /\ [][batchSize' # batchSize =>
             /\ batchSize > 2000
             /\ batchSize' = Max(2000, batchSize \div 2)
             /\ batchSize' < batchSize
             /\ currentFromBlock' = currentFromBlock
             /\ fetchPc' = "loop"
             /\ \E e \in FetchErrors : RangeLimitCaught(e)]_vars

\* The batch was halved down to the floor (3125 -> 2000, not 1562) and the
\* first window is about to be requested again.
C27_Witness ==
    /\ fetchPc = "loop"
    /\ batchSize = 2000
    /\ currentFromBlock = fetchFromBlock
    /\ attempt = 0
    /\ windows = <<>>

\* ------------------------------------------------------------------ claims on SpecConc: fallback

\* Workers with a getLogs request in flight (or waiting to retry it).
InFlight == {w \in DOMAIN workers : workers[w].pc \in {"request", "fallback"}}

\* C28: once a worker has seen a range-limit error and the fetch has fallen
\* back to sequential mode, at most one getLogs request is in flight at any
\* time until the fetch ends.
C28_FallbackIsSequential ==
    (concPc = "run" /\ fallbackToSequential) => Cardinality(InFlight) <= 1

\* Number of times range k was stored.
timesStored(k) == Cardinality({i \in DOMAIN completions : completions[i] = k})

\* C29: when the concurrent fetch succeeds, whatever the interleaving and
\* the range-limit errors, every window was stored exactly once, and the
\* result holds every pool log and every Transfer log of the requested
\* range exactly once.
C29_EachWindowStoredOnce ==
    concPc = "returned" =>
        /\ \A k \in DOMAIN ranges : timesStored(k) = 1
        /\ SameLogsOnce(concResult.events,
                        LogsInWindow(concFromBlock, concToBlock, PoolTypes))
        /\ SameLogsOnce(concResult.transferEvents,
                        LogsInWindow(concFromBlock, concToBlock, {"Transfer"}))

\* The fetch returned after requests of several workers had completed out
\* of range order, with no failed request.
CompletedOutOfOrder ==
    \E i, j \in DOMAIN completions : i < j /\ completions[i] > completions[j]

\* C30: with no failed request, for every maxConcurrency >= 1 and every
\* order in which the requests complete, the concurrent getPoolEvents
\* returns the event list and the transfer list that the same windows,
\* fetched one at a time in ascending order, give.
C30_ConcurrentEqualsSequential ==
    (concPc = "returned" /\ ~concErrorSeen) =>
        concResult = poolEventsFetched(concFromBlock, concToBlock)

C30_Witness ==
    /\ concPc = "returned"
    /\ ~concErrorSeen
    /\ maxConcurrency >= 2
    /\ CompletedOutOfOrder
    /\ Len(concResult.events) = 2
    /\ concResult.events[1].blockNumber = 100999
    /\ concResult.events[2].blockNumber = 101000

\* ------------------------------------------------------------------ SpecProgress
\* getPoolEvents called with an options.progressCallback.

MaxProgressLogs == 1

ProgressChains ==
    { c \in FetchChains : Len(c) <= MaxProgressLogs }

\* Errors a progress callback throws: one of its own, and one whose message
\* happens to contain "block range".
CallbackErrors ==
    { RpcError("progress sink closed", {}, ""),
      RpcError("cannot draw block range bar", {"block range"}, "") }

\* No callback, a callback that always returns, and callbacks of which a
\* call may throw.
ProgressCallbacks ==
    {NoCallback, [supplied |-> TRUE, throws |-> {}]}
      \cup {[supplied |-> TRUE, throws |-> {e}] : e \in CallbackErrors}

InitProgress ==
    /\ ReplayIdle
    /\ ConcIdle
    /\ RunIdle
    /\ AuxIdle
    /\ CalcIdle
    /\ chain \in ProgressChains
    /\ fetchFromBlock = 1000
    /\ fetchToBlock \in FetchToBlocks
    /\ includeTransfers \in BOOLEAN
    /\ progressCallback \in ProgressCallbacks
    /\ batchSize = DEFAULT_MAX_BLOCK_RANGE
    /\ currentFromBlock = fetchFromBlock
    /\ fetchedEvents = <<>> /\ fetchedTransfers = <<>>
    /\ attempt = 0
    /\ fetchPc = "loop"
    /\ fetchResult = NoResult
    /\ windows = <<>>
    /\ providerInOrder = TRUE

NextProgress ==
    \/ GetLogsSucceeds
    \/ \E error \in FetchErrors : GetLogsRetried(error)
    \/ \E error \in FetchErrors : GetLogsRangeLimited(error)
    \/ \E error \in FetchErrors : GetLogsRejected(error)
    \/ ReturnEmptyRange
    \/ \E error \in CallbackErrors : ProgressCallbackThrows(error)

SpecProgress == InitProgress /\ [][NextProgress]_vars

\* C31 as claimed: the progress callback does not affect the fetch result.
\* Whatever callback is supplied, a throwing one included, getPoolEvents
\* rejects only with an error of the provider, and when it returns, its
\* events (and transferEvents) are the matching logs of the range, each once,
\* as they are with no callback.
C31_ProgressIsAdvisory ==
    /\ fetchPc = "rejected" => fetchResult.error \in FetchErrors
    /\ FetchReturned =>
          /\ SameLogsOnce(fetchResult.events,
                          LogsInWindow(fetchFromBlock, fetchToBlock, PoolTypes))
          /\ includeTransfers =>
                SameLogsOnce(fetchResult.transferEvents,
                             LogsInWindow(fetchFromBlock, fetchToBlock, {"Transfer"}))

\* A fetch with a throwing callback returned an event twice.
C31_DuplicatedEvents ==
    /\ FetchReturned
    /\ Len(fetchResult.events) > Cardinality(Range(fetchResult.events))

\* C32 as claimed: a round of the automatic lookback widens the window only
\* when no replayed snapshot before fromBlock shows non-zero supply; as soon
\* as any such snapshot has totalSupply > 0 the loop is left.
C32_AnySupplyStopsLookback ==
    [][(calcPc = "fetch" /\ rounds' = rounds + 1 /\ calcPc' = "fetch")
          => ~anySupplyBeforePeriod(snapshots', fromBlock)]_vars

\* The replayed snapshot that describes the pool just before fromBlock (the
\* one before fromBlock that no other such snapshot follows) shows non-zero
\* supply.
latestSupplyBeforePeriod(snaps, from) ==
    \E i \in DOMAIN snaps :
        /\ snaps[i].blockNumber < from
        /\ \A j \in DOMAIN snaps : j > i => snaps[j].blockNumber >= from
        /\ snaps[i].totalSupply > 0

\* C32 amended: a round of the automatic lookback leaves the loop as soon as
\* the latest replayed snapshot before fromBlock has totalSupply > 0; it
\* widens the window (doubling the days up to the cap, the start block
\* clamped at genesis) exactly when that snapshot is missing or shows zero
\* supply while the window has reached neither genesis nor the cap.
C32_LatestSupplyStopsLookback ==
    [][(calcPc = "fetch" /\ rounds' = rounds + 1) =>
          LET canWiden == /\ effectiveDeployDate = NoDate
                          /\ deployBlock # 0
                          /\ automaticLookbackDays < MAX_LOOKBACK_DAYS
          IN  /\ latestSupplyBeforePeriod(snapshots', fromBlock) =>
                    /\ calcPc' = "anchor"
                    /\ UNCHANGED <<deployBlock, automaticLookbackDays>>
              /\ calcPc' = "fetch" <=>
                    (canWiden /\ ~latestSupplyBeforePeriod(snapshots', fromBlock))
              /\ calcPc' = "fetch" =>
                    /\ automaticLookbackDays' =
                          Min(MAX_LOOKBACK_DAYS, 2 * automaticLookbackDays)
                    /\ deployBlock' =
                          Max(0, fromBlock - automaticLookbackDays' * APPROX_BLOCKS_PER_DAY)]_vars

\* The window was widened once and the second round found supply just before
\* the period.
C32_Witness ==
    /\ calcPc = "anchor"
    /\ rounds = 2
    /\ automaticLookbackDays = 2 * DEFAULT_LOOKBACK_DAYS
    /\ latestSupplyBeforePeriod(snapshots, fromBlock)
    /\ Len(snapshots) >= 2

\* Index i minimises the absolute block distance to targetBlock over all
\* replayed snapshots, and is the lowest index that does.
IsNearestSnapshot(i, targetBlock) ==
    \A j \in DOMAIN snapshots :
        LET di == Abs(snapshots[i].blockNumber - targetBlock)
            dj == Abs(snapshots[j].blockNumber - targetBlock)
        IN  di <= dj /\ (dj = di => i <= j)

\* C33: the start anchor index minimises |blockNumber - fromBlock| over all
\* replayed snapshots and the end anchor index minimises
\* |blockNumber - toBlock| (lowest index on ties), each chosen on its own;
\* after the optional swap the start index is <= the end index and the
\* anchor window is the contiguous slice of snapshots between them.
C33_AnchorsAreNearestSnapshots ==
    anchorSnapshots # <<>> =>
        \E s, e \in DOMAIN snapshots :
            /\ IsNearestSnapshot(s, fromBlock)
            /\ IsNearestSnapshot(e, toBlock)
            /\ LET startIdx == Min(s, e)
                   endIdx == Max(s, e)
               IN  /\ startIdx <= endIdx
                   /\ Len(anchorSnapshots) = endIdx - startIdx + 1
                   /\ \A k \in 1..Len(anchorSnapshots) :
                         anchorSnapshots[k] = snapshots[startIdx + k - 1]

\* Anchors were chosen where two snapshots lie equally far from fromBlock and
\* two snapshots of one block are nearest to toBlock.
C33_Witness ==
    /\ calcPc = "config"
    /\ Len(anchorSnapshots) >= 2
    /\ \E i, j \in DOMAIN snapshots :
          /\ i < j
          /\ snapshots[i].blockNumber < fromBlock
          /\ snapshots[j].blockNumber > fromBlock
          /\ IsNearestSnapshot(i, fromBlock)
          /\ Abs(snapshots[j].blockNumber - fromBlock)
                = Abs(snapshots[i].blockNumber - fromBlock)
    /\ \E i, j \in DOMAIN snapshots :
          /\ i < j
          /\ snapshots[i].blockNumber = snapshots[j].blockNumber
          /\ IsNearestSnapshot(i, toBlock)

\* ------------------------------------------------------------------ SpecBalances
\* getAddressBalancesAtBlocksFromEvents(token, deployBlock, targetBlocks,
\* addresses, client, {transferEvents}), one loop step at a time.

MaxBalanceTransfers == 3

\* LP-token transfers: a mint to carol (checksummed spelling), carol pays
\* bob, bob sends more than he holds, a transfer between two other holders,
\* and a burn by bob.
BalanceUniverse ==
    << TransferLog(10, 0, "b0", ZERO_ADDRESS, "Carol", 5),
       TransferLog(20, 0, "b1", "carol", "bob", 3),
       TransferLog(30, 0, "b2", "Bob", "dave", 7),
       TransferLog(30, 1, "b3", "dave", "erin", 4),
       TransferLog(40, 0, "b4", "bob", ZERO_ADDRESS, 1) >>

BalanceAddresses ==
    { <<>>, <<"Carol">>, <<"carol", "bob">>, <<ZERO_ADDRESS, "Bob">>,
      <<"Carol", "carol">> }

BalanceTargets == { <<>>, <<20, 40>>, <<40, 10, 40>>, <<5>> }

\* const uniqueTargets = Array.from(new Set(targetBlocks)).sort((a, b) => a - b)
uniqueTargets == sortedUnique(Range(balTargetBlocks))

\* const sortedTransfers = sortEventsByBlockAndIndex(transferEvents)
sortedTransfers == sortEventsByBlockAndIndex(balTransferEvents)

\* const addressSet = new Set(addresses.map(addr => addr.toLowerCase()))
addressSet == {toLowerCase(balAddresses[i]) : i \in DOMAIN balAddresses}

InitBalances ==
    /\ ReplayIdle /\ FetchIdle /\ CalcIdle /\ ConcIdle /\ RunIdle
    /\ CacheIdle /\ RetryIdle /\ SearchIdle
    /\ chain = <<>>
    /\ balAddresses \in BalanceAddresses
    /\ balTargetBlocks \in BalanceTargets
    /\ balTransferEvents \in
          UNION {Orders(c) : c \in SubChains(BalanceUniverse, MaxBalanceTransfers)}
    /\ balEventIndex = 0 /\ balTargetIndex = 0
    /\ balBalances = <<>> /\ balanceMap = <<>>
    /\ balPc = "entry"

\* Lines 303-313: the early return on no address or no target block, else
\* the zero balances of the normalised addresses.
EnterBalances ==
    /\ balPc = "entry"
    /\ IF balAddresses = <<>> \/ balTargetBlocks = <<>>
       THEN /\ balPc' = "returned"
            /\ UNCHANGED <<balBalances, balEventIndex, balTargetIndex>>
       ELSE /\ balPc' = "loop"
            /\ balBalances' = [a \in addressSet |-> 0]
            /\ balEventIndex' = 1
            /\ balTargetIndex' = 1
    /\ UNCHANGED <<mainVars, cacheVars, retryVars, searchVars, balAddresses,
                   balTargetBlocks, balTransferEvents, balanceMap>>

\* Lines 320-336: one pass of the while loop replays the next transfer that
\* lies at or before the current target block.
ReplayTransfer ==
    /\ balPc = "loop"
    /\ balEventIndex <= Len(sortedTransfers)
    /\ sortedTransfers[balEventIndex].blockNumber <= uniqueTargets[balTargetIndex]
    /\ balBalances' = applyTransfer(balBalances, sortedTransfers[balEventIndex], addressSet)
    /\ balEventIndex' = balEventIndex + 1
    /\ UNCHANGED <<mainVars, cacheVars, retryVars, searchVars, balAddresses,
                   balTargetBlocks, balTransferEvents, balTargetIndex, balanceMap, balPc>>

\* Line 339: snapshots.set(targetBlock, new Map(balances)); the for loop
\* moves to the next target block or the function returns.
SetSnapshot ==
    /\ balPc = "loop"
    /\ ~(/\ balEventIndex <= Len(sortedTransfers)
         /\ sortedTransfers[balEventIndex].blockNumber <= uniqueTargets[balTargetIndex])
    /\ balanceMap' = Append(balanceMap, [blockNumber |-> uniqueTargets[balTargetIndex],
                                         balances |-> balBalances])
    /\ balTargetIndex' = balTargetIndex + 1
    /\ balPc' = IF balTargetIndex < Len(uniqueTargets) THEN "loop" ELSE "returned"
    /\ UNCHANGED <<mainVars, cacheVars, retryVars, searchVars, balAddresses,
                   balTargetBlocks, balTransferEvents, balEventIndex, balBalances>>

NextBalances == EnterBalances \/ ReplayTransfer \/ SetSnapshot

SpecBalances == InitBalances /\ [][NextBalances]_vars

\* The addresses the call tracks, in the lower-case spelling it compares by.
TrackedAddresses == {toLowerCase(balAddresses[i]) : i \in DOMAIN balAddresses}

\* Every checkpoint has exactly the tracked addresses as keys and no
\* negative balance; the value returned is that of the function as a whole.
SnapshotsWellFormed ==
    /\ \A i \in DOMAIN balanceMap :
          /\ DOMAIN balanceMap[i].balances = TrackedAddresses
          /\ \A a \in TrackedAddresses : balanceMap[i].balances[a] >= 0
    /\ balPc = "returned" =>
          balanceMap = getAddressBalancesAtBlocksFromEvents(
                          balTargetBlocks, balAddresses, balTransferEvents)

\* What one replayed transfer does to the running balances.
TransferStepIsSound ==
    (balPc = "loop" /\ balEventIndex' = balEventIndex + 1) =>
        LET transfer == sortedTransfers[balEventIndex]
            from == toLowerCase(transfer.from)
            to == toLowerCase(transfer.to)
        IN  /\ (from \notin TrackedAddresses /\ to \notin TrackedAddresses)
                  => balBalances' = balBalances
            /\ from = ZERO_ADDRESS =>
                  \A a \in TrackedAddresses : balBalances'[a] >= balBalances[a]
            /\ (from \in TrackedAddresses /\ from # ZERO_ADDRESS /\ from # to
                  /\ transfer.value > balBalances[from])
                  => balBalances'[from] = 0
            /\ \A a \in TrackedAddresses : balBalances'[a] >= 0
            /\ \A a \in TrackedAddresses \ {from, to} : balBalances'[a] = balBalances[a]

\* C34: in getAddressBalancesAtBlocksFromEvents, after any sequence of
\* transfers, every balance in every checkpoint snapshot is >= 0 (a debit
\* larger than the balance leaves 0), the key set of each snapshot is exactly
\* the tracked address set, a transfer with neither from nor to tracked
\* changes nothing, and a mint (from = zero address) only credits.
C34_BalancesStayWellFormed ==
    []SnapshotsWellFormed /\ [][TransferStepIsSound]_vars

\* Returned with two checkpoints: bob held 3 at block 20 and, after sending
\* 7, holds 0 at block 40, while carol keeps her 2.
C34_Witness ==
    /\ balPc = "returned"
    /\ Len(balanceMap) = 2
    /\ balanceMap[1].balances = [a \in {"carol", "bob"} |-> IF a = "bob" THEN 3 ELSE 2]
    /\ balanceMap[2].balances = [a \in {"carol", "bob"} |-> IF a = "bob" THEN 0 ELSE 2]
    /\ Len(balTransferEvents) = 3

\* ------------------------------------------------------------------ SpecCache
\* getBlockTimestamp(blockNumber, client, blockCache, CACHE_TTL) called again
\* and again on one blockCache while the wall clock moves.

MaxTimestampCalls == 3
MaxClock == 4

CachedBlocks == {2, 7, 12}
CacheTtls == {0, 2, 5}

\* Variant that keeps only the last digit of the block number in the key.
cacheKeyLastDigit(blockNumber) == <<"block-", blockNumber % 10>>

\* const cacheKey = `block-${blockNumber}`
cacheKey(blockNumber) == <<"block-", blockNumber>>

\* blockCache.has(cacheKey) && now - cached.timestamp < CACHE_TTL
freshEntries(blockNumber) ==
    {c \in blockCache : c.key = cacheKey(blockNumber) /\ now - c.timestamp < cacheTtl}

\* blockCache.set(cacheKey, {data, timestamp: now})
cacheSet(key, data) ==
    {c \in blockCache : c.key # key} \cup {[key |-> key, data |-> data, timestamp |-> now]}

InitCache ==
    /\ ReplayIdle /\ FetchIdle /\ CalcIdle /\ ConcIdle /\ RunIdle
    /\ BalIdle /\ RetryIdle /\ SearchIdle
    /\ chain = <<>>
    /\ blockCache = {}
    /\ now \in 0..MaxClock
    /\ cacheTtl \in CacheTtls
    /\ timestampReturned = <<>>

\* One call of getBlockTimestamp: a fresh cache entry is returned, otherwise
\* the block is read from the chain and its timestamp cached and returned.
GetBlockTimestamp(blockNumber) ==
    /\ Len(timestampReturned) < MaxTimestampCalls
    /\ IF freshEntries(blockNumber) # {}
       THEN LET cached == CHOOSE c \in freshEntries(blockNumber) : TRUE
            IN  /\ timestampReturned' =
                      Append(timestampReturned, [blockNumber |-> blockNumber,
                                                 data |-> cached.data, cached |-> TRUE])
                /\ UNCHANGED blockCache
       ELSE LET timestamp == BlockTimestamp(blockNumber)
            IN  /\ blockCache' = cacheSet(cacheKey(blockNumber), timestamp)
                /\ timestampReturned' =
                      Append(timestampReturned, [blockNumber |-> blockNumber,
                                                 data |-> timestamp, cached |-> FALSE])
    /\ UNCHANGED <<mainVars, balVars, retryVars, searchVars, now, cacheTtl>>

\* Date.now() between two calls: any time, earlier ones included.
ClockMoves ==
    /\ \E t \in 0..MaxClock : t # now /\ now' = t
    /\ UNCHANGED <<mainVars, balVars, retryVars, searchVars, blockCache, cacheTtl,
                   timestampReturned>>

NextCache ==
    \/ \E blockNumber \in CachedBlocks : GetBlockTimestamp(blockNumber)
    \/ ClockMoves

SpecCache == InitCache /\ [][NextCache]_vars

\* C35: the block-timestamp cache is transparent. For any sequence of
\* getBlockTimestamp calls at any wall-clock times and any TTL >= 0, each
\* call returns the timestamp the chain reports for that block number, the
\* value an empty cache gives, as long as chain history does not change.
C35_CacheIsTransparent ==
    \A i \in DOMAIN timestampReturned :
        timestampReturned[i].data = BlockTimestamp(timestampReturned[i].blockNumber)

\* Blocks 2 and 12 were read from the chain, then block 2 was answered from
\* the cache.
C35_Witness ==
    /\ Len(timestampReturned) = 3
    /\ timestampReturned[1].blockNumber = 2 /\ ~timestampReturned[1].cached
    /\ timestampReturned[2].blockNumber = 12 /\ ~timestampReturned[2].cached
    /\ timestampReturned[3].blockNumber = 2 /\ timestampReturned[3].cached

\* The failures for data insufficiency: no event, fewer than two anchor
\* snapshots, no usable treasury address.
DataInsufficiency ==
    {NO_EVENTS, NOT_ENOUGH_EVENTS, TREASURY_ZERO, TREASURY_UNREADABLE, TREASURY_UNAVAILABLE}

GenericMessages ==
    { "Contract call failed. The pool address might be invalid or the contract might not be deployed.",
      "Network error. Please check your internet connection and RPC endpoint.",
      "Block not found. The specified date range might be too old or in the future.",
      "Price oracle error. Unable to fetch token price data." }

\* C36 as claimed: when calculateGearboxRevenue fails for data insufficiency
\* (no events, fewer than two anchor snapshots, unresolved treasury), the
\* error reaching the caller carries that condition's own explanatory
\* message, not a generic contract/network/block/price message, and no
\* request is pending a retry because of it.
C36_InsufficiencyKeepsItsMessage ==
    (calcPc = "failed" /\ calcError.cause \in DataInsufficiency) =>
        /\ calcError.message = calcError.cause.message
        /\ calcError.message \notin GenericMessages
        /\ ioAttempt = 0

\* ------------------------------------------------------------------ SpecRetry
\* withRetry(fn, RETRY_OPTIONS) of the log fetch, one call of fn at a time.

\* RETRY_OPTIONS = { maxRetries: 4, initialDelayMs: 200, backoffMultiplier: 2 }
initialDelayMs == 200
backoffMultiplier == 2

\* What fn resolved with, in the history of calls.
Resolved == [ok |-> TRUE]

OnRetryHandlers == {"none", "logs", "throws"}

\* Variant that keeps the delay constant.
nextDelayConstant(delay) == delay

\* delayMs = Math.ceil(delayMs * backoffMultiplier)
nextDelay(delay) == delay * backoffMultiplier

InitRetry ==
    /\ ReplayIdle /\ FetchIdle /\ CalcIdle /\ ConcIdle /\ RunIdle
    /\ BalIdle /\ CacheIdle /\ SearchIdle
    /\ chain = <<>>
    /\ retryAttempt = 0
    /\ delayMs = Max(0, initialDelayMs)
    /\ onRetry \in OnRetryHandlers
    /\ fnCalls = <<>>
    /\ sleeps = <<>>
    /\ retryPc = "calling"

\* return await fn()
FnResolves ==
    /\ retryPc = "calling"
    /\ fnCalls' = Append(fnCalls, Resolved)
    /\ retryPc' = "resolved"
    /\ UNCHANGED <<mainVars, balVars, cacheVars, searchVars, retryAttempt, delayMs,
                   onRetry, sleeps>>

\* fn throws `error`: the catch block rethrows it, or counts the attempt,
\* calls onRetry (whose own failure is swallowed), sleeps delayMs when it
\* is positive, multiplies the delay and goes round the loop.
FnThrows(error) ==
    /\ retryPc = "calling"
    /\ fnCalls' = Append(fnCalls, error)
    /\ IF withRetryRethrows(error, retryAttempt)
       THEN /\ retryPc' = "rejected"
            /\ UNCHANGED <<retryAttempt, delayMs, sleeps>>
       ELSE /\ retryAttempt' = retryAttempt + 1
            /\ sleeps' = IF delayMs > 0 THEN Append(sleeps, delayMs) ELSE sleeps
            /\ delayMs' = nextDelay(delayMs)
            /\ retryPc' = "calling"
    /\ UNCHANGED <<mainVars, balVars, cacheVars, searchVars, onRetry>>

NextRetry ==
    \/ FnResolves
    \/ \E error \in FetchErrors : FnThrows(error)

SpecRetry == InitRetry /\ [][NextRetry]_vars

RECURSIVE PowerOfTwo(_)
PowerOfTwo(n) == IF n = 0 THEN 1 ELSE 2 * PowerOfTwo(n - 1)

\* The waits are 200, 400, 800, ... with none before the first call; every
\* call but the last failed with a retriable error; the outcome follows from
\* the last call alone, whatever the onRetry handler does.
RetrySequenceIsSound ==
    /\ \A i \in DOMAIN sleeps : sleeps[i] = 200 * PowerOfTwo(i - 1)
    /\ retryPc = "calling" => Len(sleeps) = Len(fnCalls)
    /\ retryPc # "calling" => Len(sleeps) = Len(fnCalls) - 1
    /\ \A i \in 1..(Len(fnCalls) - 1) :
          fnCalls[i] # Resolved /\ isRetriableError(fnCalls[i])
    /\ retryPc = "resolved" <=> (fnCalls # <<>> /\ fnCalls[Len(fnCalls)] = Resolved)
    /\ retryPc = "rejected" <=>
          /\ fnCalls # <<>>
          /\ fnCalls[Len(fnCalls)] # Resolved
          /\ \/ ~isRetriableError(fnCalls[Len(fnCalls)])
             \/ Len(fnCalls) = maxRetries + 1

\* Once withRetry has returned or thrown, fn is not called again.
NoCallAfterOutcome ==
    retryPc \in {"resolved", "rejected"} => fnCalls' = fnCalls

MaxBlocks == 5

SECONDS_PER_DAY == 86400

\* Timestamps blocks may carry: around 00:00, 00:01 and 23:59 UTC of day 1.
TimeGrid == {86400, 86459, 86460, 86461, 172739, 172740, 172741, 172800}

SearchDays == {0, 1}

\* Every strictly increasing sequence of 1..MaxBlocks timestamps of the grid:
\* the timestamps of blocks 0..latestBlock.
BlockTimelines ==
    { sortedUnique(S) : S \in {T \in SUBSET TimeGrid : T # {} /\ Cardinality(T) <= MaxBlocks} }

\* new Date(dateString), setUTCHours(0, 1, 0, 0) or setUTCHours(23, 59, 0, 0),
\* then Math.floor(date.getTime() / 1000)
targetTimestamp(date) ==
    date.day * SECONDS_PER_DAY + (IF date.boundary = "start" THEN 60 ELSE 23 * 3600 + 59 * 60)

\* Number(await client.getBlockNumber())
latestBlock == Len(blockTimes) - 1

\* Number((await client.getBlock({blockNumber})).timestamp)
timestampOfBlock(blockNumber) == blockTimes[blockNumber + 1]

\* Variant that returns low when the loop runs out.
valueAtLoopExitLow(l, h) == l

\* `return high` after the loop
valueAtLoopExit(l, h) == h

InitSearch ==
    /\ ReplayIdle /\ FetchIdle /\ CalcIdle /\ ConcIdle /\ RunIdle
    /\ BalIdle /\ CacheIdle /\ RetryIdle
    /\ chain = <<>>
    /\ searchDate \in [boundary : {"start", "end"}, day : SearchDays]
    /\ blockTimes \in BlockTimelines
    /\ low = 0
    /\ high = Len(blockTimes) - 1
    /\ probes = <<>>
    /\ searchPc = "search"
    /\ searchResult = <<>>

\* One pass of the while loop: read block mid and return it or narrow the
\* interval.
ProbeMid ==
    /\ searchPc = "search"
    /\ low <= high
    /\ LET mid == (low + high) \div 2
           blockTimestamp == timestampOfBlock(mid)
       IN  /\ probes' = Append(probes, mid)
           /\ IF blockTimestamp = targetTimestamp(searchDate)
              THEN /\ searchPc' = "returned"
                   /\ searchResult' = <<mid>>
                   /\ UNCHANGED <<low, high>>
              ELSE IF blockTimestamp < targetTimestamp(searchDate)
              THEN /\ low' = mid + 1
                   /\ UNCHANGED <<high, searchPc, searchResult>>
              ELSE /\ high' = mid - 1
                   /\ UNCHANGED <<low, searchPc, searchResult>>
    /\ UNCHANGED <<mainVars, balVars, cacheVars, retryVars, searchDate, blockTimes>>

\* The loop condition low <= high fails.
SearchRunsOut ==
    /\ searchPc = "search"
    /\ low > high
    /\ searchPc' = "returned"
    /\ searchResult' = <<valueAtLoopExit(low, high)>>
    /\ UNCHANGED <<mainVars, balVars, cacheVars, retryVars, searchDate, blockTimes,
                   low, high, probes>>

NextSearch == ProbeMid \/ SearchRunsOut

\* Every getBlock request is answered, so the loop keeps taking steps.
SpecSearch == InitSearch /\ [][NextSearch]_vars /\ WF_vars(NextSearch)

\* The returned block is the greatest block of 0..latestBlock whose
\* timestamp is at most the target.
ResultIsGreatestBlockAtOrBefore ==
    (searchPc = "returned" /\ targetTimestamp(searchDate) >= timestampOfBlock(0)) =>
        LET b == searchResult[1]
        IN  /\ b \in 0..latestBlock
            /\ timestampOfBlock(b) <= targetTimestamp(searchDate)
            /\ \A c \in 0..latestBlock :
                  timestampOfBlock(c) <= targetTimestamp(searchDate) => c <= b

WeighedLiquidity ==
    { anchorSnapshots[i].expectedLiquidity : i \in
        { j \in 1..(Len(anchorSnapshots) - 1) :
            BlockTimestamp(anchorSnapshots[j + 1].blockNumber)
              - BlockTimestamp(anchorSnapshots[j].blockNumber) > 0 } }

\* C39: whenever totalTimeSum > 0, the reported average TVL lies between the
\* minimum and the maximum expectedLiquidity of the anchor snapshots that
\* start an interval with positive timeDelta; when totalTimeSum = 0 the
\* average TVL is 0 and nothing is divided by zero.
C39_AverageTVLWithinBounds ==
    /\ averageTVL(weightedTVLSum, 0) = 0
    /\ calcPc = "done" =>
          IF totalTimeSum > 0
          THEN /\ WeighedLiquidity # {}
               /\ \E l \in WeighedLiquidity : l <= report.avgTVLRaw
               /\ \E l \in WeighedLiquidity : report.avgTVLRaw <= l
          ELSE report.avgTVLRaw = 0

\* A report over intervals of different liquidity, one of them of zero
\* length, whose average lies strictly between the extremes.
C39_Witness ==
    /\ calcPc = "done"
    /\ totalTimeSum > 0
    /\ \E l \in WeighedLiquidity : l < report.avgTVLRaw
    /\ \E l \in WeighedLiquidity : report.avgTVLRaw < l
    /\ \E j \in 1..(Len(anchorSnapshots) - 1) :
          anchorSnapshots[j + 1].blockNumber = anchorSnapshots[j].blockNumber

\* ------------------------------------------------------------------ SpecFetchLive
\* The sequential getPoolEvents when every getLogs request is answered, with
\* logs or with an error: the loop keeps taking steps.

MaxLiveLogs == 1

InitFetchLive ==
    /\ ReplayIdle
    /\ ConcIdle
    /\ RunIdle
    /\ AuxIdle
    /\ CalcIdle
    /\ chain \in {c \in FetchChains : Len(c) <= MaxLiveLogs}
    /\ fetchFromBlock = 1000
    /\ fetchToBlock \in FetchToBlocks
    /\ includeTransfers \in BOOLEAN
    /\ progressCallback = NoCallback
    /\ batchSize = DEFAULT_MAX_BLOCK_RANGE
    /\ currentFromBlock = fetchFromBlock
    /\ fetchedEvents = <<>> /\ fetchedTransfers = <<>>
    /\ attempt = 0
    /\ fetchPc = "loop"
    /\ fetchResult = NoResult
    /\ windows = <<>>
    /\ providerInOrder = TRUE

SpecFetchLive == InitFetchLive /\ [][NextFetch]_vars /\ WF_vars(NextFetch)

FetchEnded == fetchPc \in {"returned", "rejected"}

\* What a step of the loop does: the request is retried within the budget,
\* or the start block advances, or the batch size shrinks, or the fetch ends.
FetchStepMakesProgress ==
    \/ attempt' = attempt + 1 /\ attempt' <= maxRetries
           /\ UNCHANGED <<currentFromBlock, batchSize, fetchPc>>
    \/ currentFromBlock' > currentFromBlock /\ batchSize' = batchSize
    \/ batchSize' < batchSize /\ batchSize' >= MIN_BLOCK_RANGE
           /\ currentFromBlock' = currentFromBlock /\ fetchPc' = "loop"
    \/ fetchPc = "loop" /\ fetchPc' \in {"returned", "rejected"}

\* C40: given that every provider call returns or fails, the sequential
\* getPoolEvents eventually returns or rejects for every sequence of provider
\* errors: each loop iteration advances the start block, strictly reduces
\* the batch size, or rejects, and each request is retried a bounded number
\* of times.
C40_FetchTerminates ==
    /\ [](attempt <= maxRetries)
    /\ [][FetchStepMakesProgress]_vars
    /\ <>FetchEnded

\* The fetch ended by rejecting after the batch size had gone down to the
\* minimum, a window had been fetched and a request had used up its retries.
C40_Witness ==
    /\ fetchPc = "rejected"
    /\ batchSize = MIN_BLOCK_RANGE
    /\ Len(windows) >= 1
    /\ attempt = maxRetries

====
